---- MODULE Spec2Model ----
(***************************************************************************)
(* Model of the release-title utilities of resources/lib/common/           *)
(* source_utils.py.  A Python str is a sequence of one-character strings;  *)
(* every function of the source is an operator that computes what the     *)
(* code computes, and every specification below draws the arguments of one *)
(* function from a bounded set and runs the call.                          *)
(***************************************************************************)
EXTENDS Integers, Sequences, FiniteSets, TLC

VARIABLES
    fn,      \* the function of source_utils.py being called
    args,    \* its arguments
    pc,      \* the position of the call: a label of a line of the function, or done
    locals,  \* the local variables of the running function
    ret      \* what the call returned (or the exception it raised) once pc = "done"

vars == <<fn, args, pc, locals, ret>>

\* ------------------------------------------------------------------ bounds

\* longest raw title drawn over an alphabet of characters
MaxTitleLen == 4
\* most pieces a raw title is put together from
MaxPieces == 3
\* most words a raw title is put together from
MaxWords == 3

\* ------------------------------------------------------------- characters

LowerLetters == <<"a","b","c","d","e","f","g","h","i","j","k","l","m",
                  "n","o","p","q","r","s","t","u","v","w","x","y","z">>
UpperLetters == <<"A","B","C","D","E","F","G","H","I","J","K","L","M",
                  "N","O","P","Q","R","S","T","U","V","W","X","Y","Z">>
Range(f) == {f[i] : i \in DOMAIN f}
Digits == {"0","1","2","3","4","5","6","7","8","9"}
\* characters that no string literal can hold, and characters outside ASCII, written
\* by their code point
VTab == "U+000B"
Backtick == "U+0060"
EAcute == "U+00E9"
Bell == "U+0007"

\* string.whitespace; also what \s matches among the printable characters
Whitespace == {" ", "\t", "\n", "\r", VTab, "\f"}
Punctuation == {"!", "\"", "#", "$", "%", "&", "'", "(", ")", "*", "+", ",", "-",
                ".", "/", ":", ";", "<", "=", ">", "?", "@", "[", "\\", "]", "^",
                "_", Backtick, "{", "|", "}", "~"}
\* string.printable
Printable == Digits \cup Range(LowerLetters) \cup Range(UpperLetters)
             \cup Punctuation \cup Whitespace

\* str.lower on one character
LowerChar(c) ==
    IF c \in Range(UpperLetters)
    THEN LowerLetters[CHOOSE i \in DOMAIN UpperLetters : UpperLetters[i] = c]
    ELSE c

\* str.isalnum on one character
IsAlnum(c) == c \in Digits \cup Range(LowerLetters) \cup Range(UpperLetters) \cup {EAcute}

\* ---------------------------------------------------------------- strings

Min(S) == CHOOSE x \in S : \A y \in S : x <= y
Max(S) == CHOOSE x \in S : \A y \in S : x >= y

\* A Python assignment: the right-hand side x is computed first, and the statements
\* that follow, Rest, run with its value
Bind(x, Rest(_)) == CHOOSE r \in {Rest(v) : v \in {x}} : TRUE

\* s[i:] of Python, i counted from 1
Drop(s, n) == SubSeq(s, n + 1, Len(s))

\* s[i-1:].startswith(t): t occurs in s at position i
OccursAt(s, t, i) == i + Len(t) - 1 <= Len(s) /\ SubSeq(s, i, i + Len(t) - 1) = t

\* s.startswith(t)
StartsWith(s, t) == OccursAt(s, t, 1)

\* t in s
Contains(s, t) == \E i \in 1..(Len(s) - Len(t) + 1) : OccursAt(s, t, i)

\* s.index(t), counted from 1; 0 when t is not in s (Python raises ValueError)
Index(s, t) ==
    IF Contains(s, t) THEN Min({i \in 1..(Len(s) - Len(t) + 1) : OccursAt(s, t, i)}) ELSE 0

\* s.lower()
Lower(s) == [i \in 1..Len(s) |-> LowerChar(s[i])]

\* s.lstrip()
LStrip(s) ==
    LET kept == {i \in 1..Len(s) : s[i] \notin Whitespace}
    IN  IF kept = {} THEN <<>> ELSE SubSeq(s, Min(kept), Len(s))
\* s.rstrip()
RStrip(s) ==
    LET kept == {i \in 1..Len(s) : s[i] \notin Whitespace}
    IN  IF kept = {} THEN <<>> ELSE SubSeq(s, 1, Max(kept))
\* s.strip()
Strip(s) == LStrip(RStrip(s))

\* the alternative of alts, tried in order, that matches s at position i; 0 if none
AltAt(alts, s, i) ==
    LET hits == {k \in DOMAIN alts : OccursAt(s, alts[k], i)}
    IN  IF hits = {} THEN 0 ELSE Min(hits)

RECURSIVE SubLiteralsFrom(_, _, _, _)
\* the scan of re.sub from position from on: the text up to the next match is kept,
\* the match is replaced, and the scan resumes after it
SubLiteralsFrom(alts, repl, s, from) ==
    LET starts == {i \in from..Len(s) : AltAt(alts, s, i) # 0}
    IN  IF starts = {} THEN SubSeq(s, from, Len(s))
        ELSE SubSeq(s, from, Min(starts) - 1) \o repl
             \o SubLiteralsFrom(alts, repl, s,
                                Min(starts) + Len(alts[AltAt(alts, s, Min(starts))]))

\* re.sub(alts[1]|alts[2]|..., repl, s) for non-empty literal alternatives
SubLiterals(alts, repl, s) == SubLiteralsFrom(alts, repl, s, 1)

RECURSIVE Seqs(_, _)
\* the strings over the alphabet S of length n
Seqs(S, n) == IF n = 0 THEN {<<>>} ELSE {Append(s, c) : s \in Seqs(S, n - 1), c \in S}
\* the strings over S of length at most n
SeqsUpTo(S, n) == UNION {Seqs(S, k) : k \in 0..n}

RECURSIVE Join(_, _)
\* sep.join(words)
Join(words, sep) ==
    IF words = <<>> THEN <<>>
    ELSE IF Len(words) = 1 THEN words[1]
    ELSE words[1] \o sep \o Join(Tail(words), sep)

RECURSIVE Concats(_, _)
\* the strings put together from n pieces of P
Concats(P, n) == IF n = 0 THEN {<<>>} ELSE {s \o p : s \in Concats(P, n - 1), p \in P}
\* the strings put together from at most n pieces of P
ConcatsUpTo(P, n) == UNION {Concats(P, k) : k \in 0..n}

\* ------------------------------------------------------------ clean_title

\* _APOSTROPHE_SUBS: a possessive s after an escaped or plain apostrophe, after the
\* entity &#039; or after the cleaned entity (space 039 space)
APOSTROPHE_SUBS == << <<"\\", "'", "s">>,
                      <<"'", "s">>,
                      <<"&", "#", "0", "3", "9", ";", "s">>,
                      <<" ", "0", "3", "9", " ", "s">> >>

\* _SINGLE_QUOTE: the apostrophe and the backtick
SINGLE_QUOTE == {"'", Backtick}

\* the character class of _SEPARATORS
SeparatorChars == {":", "|", "/", ",", "!", "?", "(", ")", "\"", "[", "]", "-",
                   "\\", "_", ".", "{", "}"}

\* _SEPARATORS matches the character at position i of s: a separator character, or a
\* plus sign that does not follow dd preceded by a separator or whitespace character
SeparatorAt(s, i) ==
    \/ s[i] \in SeparatorChars
    \/ /\ s[i] = "+"
       /\ ~(/\ i >= 4
            /\ s[i - 1] = "d"
            /\ s[i - 2] = "d"
            /\ s[i - 3] \in SeparatorChars \cup Whitespace)

\* _SEPARATORS.sub by a space
SEPARATORS_sub(s) == [i \in 1..Len(s) |-> IF SeparatorAt(s, i) THEN " " ELSE s[i]]

\* _WHITESPACE.sub by a space: every run of whitespace becomes one space, that is, a
\* whitespace character that follows another one goes and the first becomes a space
WHITESPACE_sub(s) ==
    LET kept == {i \in 1..Len(s) : ~(s[i] \in Whitespace /\ i > 1 /\ s[i - 1] \in Whitespace)}
        spaced == [i \in 1..Len(s) |-> IF s[i] \in Whitespace THEN " " ELSE s[i]]
        Nth(k) == CHOOSE i \in kept : Cardinality({j \in kept : j <= i}) = k
    IN  [k \in 1..Cardinality(kept) |-> spaced[Nth(k)]]

\* _AMPERSAND: &#038; | &amp; | &
AMPERSAND == << <<"&", "#", "0", "3", "8", ";">>,
                <<"&", "a", "m", "p", ";">>,
                <<"&">> >>

\* g.deaccent_string: accented letters become their base Latin letter
deaccent_string(s) == [i \in 1..Len(s) |-> IF s[i] = EAcute THEN "e" ELSE s[i]]

\* strip_non_ascii_and_unprintable
strip_non_ascii_and_unprintable(text) == SelectSeq(text, LAMBDA c : c \in Printable)

\* the replacement clean_title picks for a possessive; broken = 0 stands for None
apostrophe_replacement(broken) ==
    IF broken = 1 THEN <<>> ELSE IF broken = 2 THEN <<" ", "s">> ELSE <<"s">>

clean_title(title, broken) ==
    Bind(Lower(strip_non_ascii_and_unprintable(deaccent_string(title))), LAMBDA t1 :
    Bind(SubLiterals(APOSTROPHE_SUBS, apostrophe_replacement(broken), t1), LAMBDA t2 :
    Bind(SelectSeq(t2, LAMBDA c : c \notin SINGLE_QUOTE), LAMBDA t3 :
    Bind(SEPARATORS_sub(t3), LAMBDA t4 :
    Bind(WHITESPACE_sub(t4), LAMBDA t5 :
    Bind(SubLiterals(AMPERSAND, <<"a", "n", "d">>, t5), LAMBDA t6 :
    Strip(t6)))))))

\* ------------------------------------------------------------ get_quality

\* the tokens of the three substring rules of get_quality, in the order it tests them
Tokens720 == { <<"7","2","0">>, <<"7","2","o">> }
Tokens1080 == { <<"1","0","8","0">>, <<"1","o","8","0">>, <<"1","0","8","o">>,
                <<"1","o","8","o">> }
Tokens2160 == { <<"2","1","6","0">>, <<"2","1","6","o">> }

\* any(q in release_title for q in tokens)
AnyIn(tokens, s) == \E q \in tokens : Contains(s, q)

\* the suppressed block: ValueError when 4k is absent and IndexError when nothing
\* follows its first occurrence both leave the block without returning
AdjacentCheck4k(t) ==
    LET idx == Index(t, <<"4","k">>)
    IN  idx # 0 /\ idx + 2 <= Len(t) /\ ~IsAlnum(t[idx + 2])

\* a plausible slip: the 1080 tokens tested before the 720 tokens
get_quality_1080_first(release_title) ==
    LET t == Lower(release_title)
    IN  IF AnyIn(Tokens1080, t) THEN "1080p"
        ELSE IF AnyIn(Tokens720, t) THEN "720p"
        ELSE IF AnyIn(Tokens2160, t) THEN "4K"
        ELSE IF AdjacentCheck4k(t) THEN "4K"
        ELSE "SD"

get_quality(release_title) ==
    LET t == Lower(release_title)
    IN  IF AnyIn(Tokens720, t) THEN "720p"
        ELSE IF AnyIn(Tokens1080, t) THEN "1080p"
        ELSE IF AnyIn(Tokens2160, t) THEN "4K"
        ELSE IF AdjacentCheck4k(t) THEN "4K"
        ELSE "SD"

\* --------------------------------------------------------------- get_info

\* INFO_STRUCT["videocodec"]
INFO_STRUCT_videocodec == {"AVC", "HEVC", "XVID", "DIVX", "WMV", "MP4", "MPEG", "VP9", "AV1"}

\* INFO_TYPES: for each tag, the keywords that give it
INFO_TYPES == <<
    [tag |-> "AVC", string_list |-> {<<"x","2","6","4">>, <<"x"," ","2","6","4">>,
        <<"h","2","6","4">>, <<"h"," ","2","6","4">>, <<"a","v","c">>}],
    [tag |-> "HEVC", string_list |-> {<<"x","2","6","5">>, <<"x"," ","2","6","5">>,
        <<"h","2","6","5">>, <<"h"," ","2","6","5">>, <<"h","e","v","c">>}],
    [tag |-> "XVID", string_list |-> {<<"x","v","i","d">>}],
    [tag |-> "DIVX", string_list |-> {<<"d","i","v","x">>}],
    [tag |-> "MP4", string_list |-> {<<"m","p","4">>}],
    [tag |-> "WMV", string_list |-> {<<"w","m","v">>}],
    [tag |-> "MPEG", string_list |-> {<<"m","p","e","g">>}],
    [tag |-> "VP9", string_list |-> {<<"v","p","9">>}],
    [tag |-> "AV1", string_list |-> {<<"a","v","1">>}],
    [tag |-> "REMUX", string_list |-> {<<"r","e","m","u","x">>, <<"b","d","r","e","m","u","x">>}],
    [tag |-> "DV", string_list |-> {<<" ","d","v"," ">>, <<"d","o","v","i">>,
        <<"d","o","l","b","y"," ","v","i","s","i","o","n">>,
        <<"d","o","l","b","y","v","i","s","i","o","n">>}],
    [tag |-> "HDR", string_list |-> {<<" ","h","d","r"," ">>, <<"h","d","r","1","0">>,
        <<"h","d","r"," ","1","0">>,
        <<"u","h","d"," ","b","l","u","r","a","y"," ","2","1","6","0","p">>,
        <<"u","h","d"," ","b","l","u"," ","r","a","y"," ","2","1","6","0","p">>,
        <<"2","1","6","0","p"," ","u","h","d"," ","b","l","u","r","a","y">>,
        <<"2","1","6","0","p"," ","u","h","d"," ","b","l","u"," ","r","a","y">>,
        <<"2","1","6","0","p"," ","b","l","u","r","a","y"," ","h","e","v","c"," ","t","r","u","e","h","d">>,
        <<"2","1","6","0","p"," ","b","l","u","r","a","y"," ","h","e","v","c"," ","d","t","s">>,
        <<"2","1","6","0","p"," ","b","l","u","r","a","y"," ","h","e","v","c"," ","l","p","c","m">>,
        <<"2","1","6","0","p"," ","u","s"," ","b","l","u","r","a","y"," ","h","e","v","c"," ","t","r","u","e","h","d">>,
        <<"2","1","6","0","p"," ","u","s"," ","b","l","u","r","a","y"," ","h","e","v","c"," ","d","t","s">>}],
    [tag |-> "SDR", string_list |-> {<<" ","s","d","r">>}],
    [tag |-> "AAC", string_list |-> {<<"a","a","c">>}],
    [tag |-> "DTS-HDMA", string_list |-> {<<"h","d"," ","m","a">>, <<"h","d","m","a">>}],
    [tag |-> "DTS-HDHR", string_list |-> {<<"h","d"," ","h","r">>, <<"h","d","h","r">>,
        <<"d","t","s"," ","h","r">>, <<"d","t","s","h","r">>}],
    [tag |-> "DTS-X", string_list |-> {<<"d","t","s","x">>, <<" ","d","t","s"," ","x">>}],
    [tag |-> "ATMOS", string_list |-> {<<"a","t","m","o","s">>}],
    [tag |-> "TRUEHD", string_list |-> {<<"t","r","u","e","h","d">>,
        <<"t","r","u","e"," ","h","d">>}],
    [tag |-> "DD+", string_list |-> {<<"d","d","p">>, <<"e","a","c","3">>,
        <<" ","e"," ","a","c","3">>, <<" ","e"," ","a","c"," ","3">>, <<"d","d","+">>,
        <<"d","i","g","i","t","a","l"," ","p","l","u","s">>,
        <<"d","i","g","i","t","a","l","p","l","u","s">>}],
    [tag |-> "DD", string_list |-> {<<" ","d","d"," ">>, <<"d","d","2">>, <<"d","d","5">>,
        <<"d","d","7">>, <<" ","a","c","3">>, <<" ","a","c"," ","3">>,
        <<"d","o","l","b","y"," ","d","i","g","i","t","a","l">>,
        <<"d","o","l","b","y","d","i","g","i","t","a","l">>, <<"d","o","l","b","y","5">>}],
    [tag |-> "MP3", string_list |-> {<<"m","p","3">>}],
    [tag |-> "WMA", string_list |-> {<<" ","w","m","a">>}],
    [tag |-> "2.0", string_list |-> {<<"2"," ","0"," ">>, <<"2"," ","0","c","h">>,
        <<"2","c","h">>}],
    [tag |-> "5.1", string_list |-> {<<"5"," ","1"," ">>, <<"5"," ","1","c","h">>,
        <<"6","c","h">>}],
    [tag |-> "7.1", string_list |-> {<<"7"," ","1"," ">>, <<"7"," ","1","c","h">>,
        <<"8","c","h">>}],
    [tag |-> "BLURAY", string_list |-> {<<"b","l","u","r","a","y">>,
        <<"b","l","u"," ","r","a","y">>, <<"b","d","r","i","p">>, <<"b","d"," ","r","i","p">>,
        <<"b","r","r","i","p">>, <<"b","r"," ","r","i","p">>, <<"b","d","m","u","x">>}],
    [tag |-> "WEB", string_list |-> {<<" ","w","e","b"," ">>, <<"w","e","b","r","i","p">>,
        <<"w","e","b","d","l">>, <<"w","e","b"," ","r","i","p">>, <<"w","e","b"," ","d","l">>,
        <<"w","e","b","m","u","x">>, <<"d","l","m","u","x">>}],
    [tag |-> "HD-RIP", string_list |-> {<<" ","h","d","r","i","p">>,
        <<" ","h","d"," ","r","i","p">>}],
    [tag |-> "DVDRIP", string_list |-> {<<"d","v","d","r","i","p">>,
        <<"d","v","d"," ","r","i","p">>}],
    [tag |-> "HDTV", string_list |-> {<<"h","d","t","v">>}],
    [tag |-> "PDTV", string_list |-> {<<"p","d","t","v">>}],
    [tag |-> "CAM", string_list |-> {<<" ","c","a","m"," ">>, <<"c","a","m","r","i","p">>,
        <<"c","a","m"," ","r","i","p">>, <<"h","d","c","a","m">>, <<"h","d"," ","c","a","m">>,
        <<" ","t","s"," ">>, <<" ","t","s","1">>, <<" ","t","s","7">>, <<"h","d"," ","t","s">>,
        <<"h","d","t","s">>, <<"t","e","l","e","s","y","n","c">>, <<" ","t","c"," ">>,
        <<" ","t","c","1">>, <<" ","t","c","7">>, <<"h","d"," ","t","c">>, <<"h","d","t","c">>,
        <<"t","e","l","e","c","i","n","e">>, <<"x","b","e","t">>, <<"h","c","t","s">>,
        <<"h","c"," ","t","s">>, <<"h","c","t","c">>, <<"h","c"," ","t","c">>,
        <<"h","q","c","a","m">>, <<"h","q"," ","c","a","m">>}],
    [tag |-> "SCR", string_list |-> {<<"s","c","r"," ">>, <<"s","c","r","e","e","n","e","r">>}],
    [tag |-> "HC", string_list |-> {<<"k","o","r","s","u","b">>, <<" ","k","o","r"," ">>,
        <<" ","h","c"," ">>, <<"h","c","s","u","b">>, <<"h","c","t","s">>, <<"h","c","t","c">>,
        <<"h","c","h","d","r","i","p">>, <<"h","a","r","d","s","u","b">>,
        <<"h","a","r","d"," ","s","u","b">>, <<"s","u","b"," ","h","a","r","d">>,
        <<"h","a","r","d","c","o","d","e">>, <<"h","a","r","d"," ","c","o","d","e">>,
        <<"v","o","s","t","f","r">>, <<"v","o"," ","s","t","f","r">>}],
    [tag |-> "3D", string_list |-> {<<" ","3","d">>}]
>>

\* the tags whose keyword list has a keyword in the title (line 140)
DetectInfo(title) ==
    {INFO_TYPES[k].tag : k \in {j \in DOMAIN INFO_TYPES : AnyIn(INFO_TYPES[j].string_list, title)}}

K_2160p == <<"2","1","6","0","p">>
K_remux == <<"r","e","m","u","x">>
K_hybrid == <<"h","y","b","r","i","d">>
K_hdr == <<" ","h","d","r">>
K_dtshd == <<"d","t","s","h","d">>
K_dts_hd == <<"d","t","s"," ","h","d">>
K_dts == <<" ","d","t","s">>
K_sub == <<"s","u","b">>
K_forced == <<"f","o","r","c","e","d">>
K_opus == <<"o","p","u","s">>

\* a plausible slip: the first rule leaves HDR in the set when SDR is stated too
HdrSdrRuleKeepsHdr(title, info) ==
    IF {"SDR", "HDR"} \subseteq info THEN info
    ELSE IF Contains(title, K_2160p) /\ Contains(title, K_remux)
            /\ info \cap {"HDR", "SDR"} = {}
         THEN info \cup {"HDR"}
    ELSE IF "DV" \in info /\ Contains(title, K_hybrid) /\ info \cap {"HDR", "SDR"} = {}
         THEN info \cup {"HDR"}
    ELSE info

\* lines 141-146: SDR stated beside HDR drops HDR; else a 2160p remux, or a Dolby
\* Vision hybrid, that states neither gets HDR
HdrSdrRule(title, info) ==
    IF {"SDR", "HDR"} \subseteq info THEN info \ {"HDR"}
    ELSE IF Contains(title, K_2160p) /\ Contains(title, K_remux)
            /\ info \cap {"HDR", "SDR"} = {}
         THEN info \cup {"HDR"}
    ELSE IF "DV" \in info /\ Contains(title, K_hybrid) /\ info \cap {"HDR", "SDR"} = {}
         THEN info \cup {"HDR"}
    ELSE info

\* lines 147-148: HDR beside DV is dropped unless the title says hybrid or hdr
DvAloneRule(title, info) ==
    IF {"HDR", "DV"} \subseteq info /\ ~Contains(title, K_hybrid) /\ ~Contains(title, K_hdr)
    THEN info \ {"HDR"}
    ELSE info

\* a plausible slip: HYBRID takes the place of HDR instead of joining it
HybridRuleReplacesHdr(info) ==
    IF {"HDR", "DV"} \subseteq info THEN (info \ {"HDR"}) \cup {"HYBRID"} ELSE info

\* a plausible slip: Dolby Vision alone is taken for a hybrid
HybridRuleOnDvAlone(info) ==
    IF "DV" \in info THEN info \cup {"HYBRID"} ELSE info

\* lines 149-150
HybridRule(info) ==
    IF {"HDR", "DV"} \subseteq info THEN info \cup {"HYBRID"} ELSE info

\* lines 151-152
HevcRule(info) ==
    IF info \cap {"HDR", "DV"} # {} /\ info \cap {"HEVC", "AVC", "AV1", "VP9"} = {}
    THEN info \cup {"HEVC"}
    ELSE info

\* a plausible slip: the first branch of lines 153-154 left out
AudioRuleKeepsDd(title, info) ==
    IF (Contains(title, K_dtshd) \/ Contains(title, K_dts_hd))
       /\ info \cap {"DTS-HDMA", "DTS-HDHR"} = {}
    THEN info \cup {"DTS-HD"}
    ELSE IF Contains(title, K_dts)
            /\ info \cap {"DTS-HDMA", "DTS-HDHR", "DTS-X", "DTS-HD"} = {}
         THEN info \cup {"DTS"}
    ELSE info

\* lines 153-158
AudioRule(title, info) ==
    IF {"DD", "DD+"} \subseteq info THEN info \ {"DD"}
    ELSE IF (Contains(title, K_dtshd) \/ Contains(title, K_dts_hd))
            /\ info \cap {"DTS-HDMA", "DTS-HDHR"} = {}
         THEN info \cup {"DTS-HD"}
    ELSE IF Contains(title, K_dts)
            /\ info \cap {"DTS-HDMA", "DTS-HDHR", "DTS-X", "DTS-HD"} = {}
         THEN info \cup {"DTS"}
    ELSE info

\* lines 159-160
HcRule(title, info) ==
    IF Contains(title, K_sub) /\ Contains(title, K_forced) THEN info \cup {"HC"} ELSE info

\* lines 161-162
OpusRule(title, info) ==
    IF Contains(title, K_opus) /\ "AV1" \in info THEN info \cup {"OPUS"} ELSE info

\* ---------------------------------------------------- regular expressions

\* A regular expression is run as the set of positions its match can have reached: P
\* holds positions of s (the index of the next character to read) and each operator
\* gives the positions after one more piece of the pattern.  The match exists when
\* the set is not empty at the end of the pattern, whatever the order in which the
\* engine backtracks.

\* a literal t
ReLit(s, t, P) == {p + Len(t) : p \in {q \in P : OccursAt(s, t, q)}}

\* an optional literal: t?
ReOpt(s, t, P) == P \cup ReLit(s, t, P)

\* one of the literals of the set alts
ReAlt(s, alts, P) == UNION {ReLit(s, t, P) : t \in alts}

\* \d+
ReDigits(s, P) ==
    {q \in 2..(Len(s) + 1) : \E p \in P : p < q /\ \A i \in p..(q - 1) : s[i] \in Digits}

RECURSIVE ReAltStar(_, _, _)
\* (?:alts)* for non-empty literals: the positions reached by any number of them
ReAltStar(s, alts, P) ==
    LET Q == P \cup ReAlt(s, alts, P)
    IN  IF Q = P THEN P ELSE ReAltStar(s, alts, Q)

\* (?:alts)+
ReAltPlus(s, alts, P) == ReAltStar(s, alts, ReAlt(s, alts, P))

\* ---------------------------------------------- check_episode_number_match

K_space == <<" ">>
K_season == <<"s","e","a","s","o","n">>
K_episode == <<"e","p","i","s","o","d","e">>
K_ep == <<"e","p">>

\* the three alternatives of the group of _EPISODE_NUMBERS, from the positions P
\* s\d+ ?e\d+ followed by a space
EpisodeSxEy(s, P) ==
    ReLit(s, K_space, ReDigits(s, ReLit(s, <<"e">>,
        ReOpt(s, K_space, ReDigits(s, ReLit(s, <<"s">>, P))))))
\* season ?\d+ ?(?:episode|ep) ?\d+
EpisodeSeasonEpisode(s, P) ==
    ReDigits(s, ReOpt(s, K_space, ReAlt(s, {K_episode, K_ep},
        ReOpt(s, K_space, ReDigits(s, ReOpt(s, K_space, ReLit(s, K_season, P)))))))
\* a space, \d+ ?x ?\d+ and a space
EpisodeNxN(s, P) ==
    ReLit(s, K_space, ReDigits(s, ReOpt(s, K_space, ReLit(s, <<"x">>,
        ReOpt(s, K_space, ReDigits(s, ReLit(s, K_space, P)))))))

\* the positions the leading .* of _EPISODE_NUMBERS can stop at: the dot matches no
\* newline
DotStar(s) == {p \in 1..(Len(s) + 1) : \A i \in 1..(p - 1) : s[i] # "\n"}

\* _EPISODE_NUMBERS.match(release_title) is not None
check_episode_number_match(release_title) ==
    LET P == DotStar(release_title)
    IN  \/ EpisodeSxEy(release_title, P) # {}
        \/ EpisodeSeasonEpisode(release_title, P) # {}
        \/ EpisodeNxN(release_title, P) # {}

\* --------------------------------------------- titles and simple_info

\* A dict is a function on the keys it holds, so that a missing key is a key outside
\* its DOMAIN.  The country of simple_info is a str, [str |-> s], or a list of str,
\* [list |-> l].  None is the one-element sequence below, which no str equals.
None == <<"None">>

\* d.get(key, default)
Get(d, key, default) == IF key \in DOMAIN d THEN d[key] ELSE default

\* title.replace(old, new) for a non-empty old
Replace(title, old, new) == SubLiterals(<<old>>, new, title)

\* re.sub of whitespace runs by one space (line 230)
CollapseWhitespace(s) == WHITESPACE_sub(s)

\* remove_from_title(title, target, clean=True): target is a str, already lowercase
\* or lowered here
remove_from_title(title, target, clean) ==
    IF target = <<>> THEN title
    ELSE Bind(Lower(target), LAMBDA t :
         Bind(Replace(title, <<" ">> \o t \o <<" ">>, <<" ">>), LAMBDA rf1 :
         Bind(Replace(rf1, <<".">> \o t \o <<".">>, <<" ">>), LAMBDA rf2 :
         Bind(Replace(rf2, <<"+">> \o t \o <<"+">>, <<" ">>), LAMBDA rf3 :
         Bind(Replace(rf3, <<"-">> \o t \o <<"-">>, <<" ">>), LAMBDA rf4 :
         Bind(IF clean THEN clean_title(rf4, 0) \o <<" ">> ELSE rf4 \o <<" ">>, LAMBDA rf5 :
         CollapseWhitespace(rf5)))))))

K_gb == <<"g", "b">>
K_uk == <<"u", "k">>

\* _remove_country(clean, country, title)
_remove_country(clean, country, title) ==
    IF country \in {K_gb, K_uk}
    THEN Bind(remove_from_title(title, K_gb, clean), LAMBDA without_gb :
              remove_from_title(without_gb, K_uk, clean))
    ELSE remove_from_title(title, country, clean)

RECURSIVE remove_countries(_, _, _, _)
\* the loop of remove_country over a list of countries: the title after the first n
remove_countries(clean, countries, n, title) ==
    IF n = 0 THEN title
    ELSE Bind(remove_countries(clean, countries, n - 1, title), LAMBDA before :
              _remove_country(clean, Lower(countries[n]), before))

\* remove_country(title, country, clean=True)
remove_country(title, country, clean) ==
    IF "list" \in DOMAIN country
    THEN remove_countries(clean, country.list, Len(country.list), Lower(title))
    ELSE _remove_country(clean, Lower(country.str), Lower(title))

\* simple_info.get of country and year, with the defaults of lines 411-413
InfoCountry(simple_info) == Get(simple_info, "country", [str |-> <<>>])
InfoYear(simple_info) == Get(simple_info, "year", <<>>)

\* clean_title_with_simple_info(title, simple_info)
clean_title_with_simple_info(title, simple_info) ==
    Bind(clean_title(title, 0) \o <<" ">>, LAMBDA ct1 :
    Bind(remove_country(ct1, InfoCountry(simple_info), TRUE), LAMBDA ct2 :
    Bind(remove_from_title(ct2, InfoYear(simple_info), TRUE), LAMBDA ct3 :
    Bind(WHITESPACE_sub(ct3), LAMBDA ct4 :
    RStrip(ct4)))))

\* check_title_match(title_parts, release_title, simple_info), title_parts a list
check_title_match(title_parts, release_title, simple_info) ==
    Bind(clean_title(Join(title_parts, <<" ">>), 0) \o <<" ">>, LAMBDA cm1 :
    Bind(remove_country(cm1, InfoCountry(simple_info), TRUE), LAMBDA cm2 :
    Bind(remove_from_title(cm2, InfoYear(simple_info), TRUE), LAMBDA cm3 :
    StartsWith(release_title, cm3))))

\* s.zfill(width)
zfill(s, width) ==
    LET zeros == [i \in 1..(width - Len(s)) |-> "0"]
    IN  IF Len(s) >= width THEN s
        ELSE IF s # <<>> /\ s[1] \in {"+", "-"} THEN <<s[1]>> \o zeros \o Tail(s)
        ELSE zeros \o s

\* ---------------------------------------------------- _get_regex_pattern

\* the stripped, non-empty strings of a list, as a set
StrippedNonEmpty(strings) ==
    {Strip(strings[i]) : i \in DOMAIN strings} \ {<<>>}

\* _get_regex_pattern(titles, suffixes_list) without non-escaped suffixes: the titles,
\* each followed by a space, and the suffixes that the pattern
\* ^(?:title |...)+(?:suffix|...)+ lists, every one escaped and so matched literally.
\* Without a title or without a suffix the cut of the last character leaves a pattern
\* that re.compile rejects.
_get_regex_pattern(titles, suffixes_list) ==
    IF StrippedNonEmpty(titles) = {} \/ StrippedNonEmpty(suffixes_list) = {}
    THEN [exc |-> "re.error"]
    ELSE [titles |-> {t \o <<" ">> : t \in StrippedNonEmpty(titles)},
          suffixes |-> StrippedNonEmpty(suffixes_list)]

\* re.match(regex_pattern, release_title) is not None
regex_pattern_match(regex_pattern, release_title) ==
    ReAltPlus(release_title, regex_pattern.suffixes,
              ReAltPlus(release_title, regex_pattern.titles, {1})) # {}

\* ---------------------------------------------- get_filter_season_pack_fn

\* line 489: the f-string keeps the percent sign of the old format string
season_fill_check(season_fill) == <<"s", "%">> \o season_fill

\* the suffixes of lines 487-502
season_pack_suffixes(season) ==
    LET season_fill == zfill(season, 2)
    IN  << <<"s">> \o season,
           season_fill_check(season_fill),
           K_season \o <<" ">> \o season,
           K_season \o <<" ">> \o season_fill >>

\* get_filter_season_pack_fn(simple_info): the compiled pattern the closure keeps, or
\* the exception raised
get_filter_season_pack_fn(simple_info) ==
    IF ~({"show_title", "season_number", "show_aliases"} \subseteq DOMAIN simple_info)
    THEN [exc |-> "KeyError"]
    ELSE LET titles == <<simple_info.show_title>> \o simple_info.show_aliases
             clean_titles == [i \in DOMAIN titles |->
                                 clean_title_with_simple_info(titles[i], simple_info)]
         IN  _get_regex_pattern(clean_titles, season_pack_suffixes(simple_info.season_number))

\* filter_fn(release_title) of the season pack filter
season_pack_filter_fn(regex_pattern, release_title) ==
    IF check_episode_number_match(release_title) THEN FALSE
    ELSE regex_pattern_match(regex_pattern, release_title)

\* ----------------------------------------------------- filter_movie_title

\* a plausible slip: the year test of lines 379-380 left out
filter_movie_title_any_year(org_release_title, release_title, movie_title, simple_info) ==
    Bind(Get(simple_info, "year", None), LAMBDA year :
    Bind(clean_title(movie_title, 0), LAMBDA title :
    Bind(clean_title(release_title, 0), LAMBDA cleaned :
        IF year = None \/ year = <<>> THEN FALSE
        ELSE IF Contains(cleaned, K_season) /\ ~Contains(title, K_season) THEN FALSE
        ELSE IF check_episode_number_match(cleaned) THEN FALSE
        ELSE \/ check_title_match(<<title>>, cleaned, simple_info)
             \/ check_title_match(<<clean_title(movie_title, 1)>>, cleaned, simple_info)
             \/ check_title_match(<<clean_title(movie_title, 2)>>, cleaned, simple_info))))

\* filter_movie_title(org_release_title, release_title, movie_title, simple_info);
\* org_release_title is a str or None
filter_movie_title(org_release_title, release_title, movie_title, simple_info) ==
    Bind(Get(simple_info, "year", None), LAMBDA year :
    Bind(clean_title(movie_title, 0), LAMBDA title :
    Bind(clean_title(release_title, 0), LAMBDA cleaned :
        IF year = None \/ year = <<>> THEN FALSE
        ELSE IF org_release_title # None /\ ~Contains(org_release_title, year) THEN FALSE
        ELSE IF Contains(cleaned, K_season) /\ ~Contains(title, K_season) THEN FALSE
        ELSE IF check_episode_number_match(cleaned) THEN FALSE
        ELSE \/ check_title_match(<<title>>, cleaned, simple_info)
             \/ check_title_match(<<clean_title(movie_title, 1)>>, cleaned, simple_info)
             \/ check_title_match(<<clean_title(movie_title, 2)>>, cleaned, simple_info))))

\* ------------------------------------------- specification: clean_title

\* the characters the raw titles of SpecClean are drawn over
CleanAlphabet == {"a", "s", "d", "D", ".", "+", "'", "&", " "}

InitClean ==
    /\ fn = "clean_title"
    /\ args \in {[title |-> t, broken |-> b] :
                    t \in SeqsUpTo(CleanAlphabet, MaxTitleLen), b \in {0, 1, 2}}
    /\ pc = "call"
    /\ locals = <<>>
    /\ ret = <<>>

\* the call clean_title(title, broken) returns
CleanTitleCall ==
    /\ fn = "clean_title" /\ pc = "call"
    /\ ret' = clean_title(args.title, args.broken)
    /\ pc' = "done"
    /\ UNCHANGED <<fn, args, locals>>

NextClean == CleanTitleCall

SpecClean == InitClean /\ [][NextClean]_vars

\* C1: clean_title is idempotent: cleaning a cleaned title, in the same apostrophe
\* mode, gives the cleaned title back.
CleanTitleIdempotent ==
    (fn = "clean_title" /\ pc = "done") => clean_title(ret, args.broken) = ret

\* ------------------------------------------- specification: get_quality

\* the pieces the raw titles of SpecQuality are put together from
QualityPieces == { <<"7","2","0">>, <<"7","2","O">>, <<"1","0","8","0">>,
                   <<"1","o","8","O">>, <<"2","1","6","0">>, <<"2","1","6","o">>,
                   <<"4","k">>, <<"4","K">>, <<".">>, <<"x">>, <<" ">>, <<EAcute>> }

InitQuality ==
    /\ fn = "get_quality"
    /\ args \in {[release_title |-> t] : t \in ConcatsUpTo(QualityPieces, MaxPieces)}
    /\ pc = "call"
    /\ locals = <<>>
    /\ ret = <<>>

\* the call get_quality(release_title) returns
GetQualityCall ==
    /\ fn = "get_quality" /\ pc = "call"
    /\ ret' = get_quality(args.release_title)
    /\ pc' = "done"
    /\ UNCHANGED <<fn, args, locals>>

NextQuality == GetQualityCall

SpecQuality == InitQuality /\ [][NextQuality]_vars

QualityDone == fn = "get_quality" /\ pc = "done"

\* the lowercased title get_quality tests
QualityTitle == Lower(args.release_title)

\* some occurrence of 4k in the title is followed by no character or by one that is
\* not alphanumeric
Has4kBeforeNonAlnum ==
    \E i \in 1..Len(QualityTitle) :
        /\ OccursAt(QualityTitle, <<"4","k">>, i)
        /\ (i + 2 > Len(QualityTitle) \/ ~IsAlnum(QualityTitle[i + 2]))

NoResolutionToken ==
    /\ ~AnyIn(Tokens720, QualityTitle)
    /\ ~AnyIn(Tokens1080, QualityTitle)
    /\ ~AnyIn(Tokens2160, QualityTitle)

\* C8: a title with none of the 720/1080/2160 tokens that contains 4k followed by a
\* non-alphanumeric character, or by nothing at all, is classified 4K.
Quality4kAdjacent ==
    (QualityDone /\ NoResolutionToken /\ Has4kBeforeNonAlnum) => ret = "4K"

\* the first occurrence of 4k in the title is followed by a character that is not
\* alphanumeric: the check get_quality makes last
First4kBeforeNonAlnum ==
    \E i \in 1..(Len(QualityTitle) - 2) :
        /\ OccursAt(QualityTitle, <<"4","k">>, i)
        /\ \A j \in 1..(i - 1) : ~OccursAt(QualityTitle, <<"4","k">>, j)
        /\ ~IsAlnum(QualityTitle[i + 2])

InfoWords == { <<"H","D","R">>,
               <<"S","D","R">>,
               <<"D","V">>,
               <<"H","y","b","r","i","d">>,
               <<"2","1","6","0","p">>,
               <<"R","E","M","U","X">>,
               <<"H","D","R","1","0">>,
               <<"X","v","i","D">>,
               <<"x","2","6","4">>,
               <<"D","D","+">>,
               <<"A","C","3">>,
               <<"D","T","S">> }

\* the release titles the examples of the specification name
Example_Remux == <<"M","o","v","i","e",".","2","0","2","0",".","2","1","6","0","p",".","R","E","M","U","X",".","D","V",".","H","Y","B","R","I","D",".","T","r","u","e","H","D">>
Example_DDPlus == <<"S","h","o","w",".","S","0","1","E","0","2",".","7","2","0","p",".","D","D","+",".","A","A","C">>

InfoTitles ==
    {Join(ws, <<".">>) : ws \in SeqsUpTo(InfoWords, MaxWords)}
        \cup {Example_Remux, Example_DDPlus}

InitInfo ==
    /\ fn = "get_info"
    /\ args \in {[release_title |-> t] : t \in InfoTitles}
    /\ pc = "l139"
    /\ locals = <<>>
    /\ ret = <<>>

\* lines 139-140: the cleaned title with a space appended, and the detected tags
GetInfoDetect ==
    /\ fn = "get_info" /\ pc = "l139"
    /\ LET title == clean_title(args.release_title, 0) \o <<" ">>
       IN  locals' = [title |-> title, info |-> DetectInfo(title)]
    /\ pc' = "l141"
    /\ UNCHANGED <<fn, args, ret>>

\* one rule of the fixed sequence of corrections: from label at to label to
GetInfoStep(at, to, info) ==
    /\ fn = "get_info" /\ pc = at
    /\ locals' = [locals EXCEPT !.info = info]
    /\ pc' = to
    /\ UNCHANGED <<fn, args, ret>>

GetInfoHdrSdr == GetInfoStep("l141", "l147", HdrSdrRule(locals.title, locals.info))
GetInfoDvAlone == GetInfoStep("l147", "l149", DvAloneRule(locals.title, locals.info))
GetInfoHybrid == GetInfoStep("l149", "l151", HybridRule(locals.info))
GetInfoHevc == GetInfoStep("l151", "l153", HevcRule(locals.info))
GetInfoAudio == GetInfoStep("l153", "l159", AudioRule(locals.title, locals.info))
GetInfoHc == GetInfoStep("l159", "l161", HcRule(locals.title, locals.info))
GetInfoOpus == GetInfoStep("l161", "l163", OpusRule(locals.title, locals.info))

\* line 163
GetInfoReturn ==
    /\ fn = "get_info" /\ pc = "l163"
    /\ ret' = locals.info
    /\ pc' = "done"
    /\ UNCHANGED <<fn, args, locals>>

NextInfo ==
    \/ GetInfoDetect
    \/ GetInfoHdrSdr
    \/ GetInfoDvAlone
    \/ GetInfoHybrid
    \/ GetInfoHevc
    \/ GetInfoAudio
    \/ GetInfoHc
    \/ GetInfoOpus
    \/ GetInfoReturn

SpecInfo == InitInfo /\ [][NextInfo]_vars

InfoDone == fn = "get_info" /\ pc = "done"

\* C2 as stated: for the 2160p remux example the result holds DV, HYBRID, HEVC, TRUEHD
\* and REMUX and does not hold HDR.
RemuxExampleWithoutHdr ==
    (InfoDone /\ args.release_title = Example_Remux) =>
        ({"DV", "HYBRID", "HEVC", "TRUEHD", "REMUX"} \subseteq ret /\ "HDR" \notin ret)

\* C2 as amended: for the 2160p remux example the result holds DV, HYBRID, HEVC, TRUEHD
\* and REMUX, and HDR as well: HYBRID joins HDR and DV, it does not replace HDR.
RemuxExampleWithHdr ==
    (InfoDone /\ args.release_title = Example_Remux) =>
        ({"DV", "HYBRID", "HEVC", "TRUEHD", "REMUX"} \subseteq ret /\ "HDR" \in ret)

\* get_info has returned for the 2160p remux example
RemuxExampleWitness ==
    InfoDone /\ args.release_title = Example_Remux /\ "HYBRID" \in ret

\* C10: the set get_info builds never holds both HDR and SDR once the first rule has
\* run, so none of the later rules adds HDR back beside SDR, and neither does the
\* returned set hold both.
InfoNeverHdrAndSdr ==
    /\ (fn = "get_info" /\ pc \notin {"l139", "l141"}) =>
            ~({"HDR", "SDR"} \subseteq locals.info)
    /\ InfoDone => ~({"HDR", "SDR"} \subseteq ret)

\* a title in which both HDR and SDR were detected has been through every rule, and
\* the returned set holds SDR
InfoNeverHdrAndSdrWitness ==
    /\ InfoDone
    /\ {"HDR", "SDR"} \subseteq DetectInfo(locals.title)
    /\ "SDR" \in ret

\* C11: the set get_info returns contains HYBRID if and only if it contains both HDR
\* and DV.
InfoHybridIffHdrAndDv ==
    InfoDone => ("HYBRID" \in ret <=> {"HDR", "DV"} \subseteq ret)

\* a title with Dolby Vision and HDR, not the remux example, came back with HYBRID
\* beside both
InfoHybridIffHdrAndDvWitness ==
    /\ InfoDone
    /\ args.release_title # Example_Remux
    /\ {"HYBRID", "HDR", "DV"} \subseteq ret

\* C12: the set get_info returns never contains both DD and DD+, and the title
\* Show.S01E02.720p.DD+.AAC gives DD+ and not DD.
InfoNeverDdAndDdPlus ==
    InfoDone =>
        /\ ~({"DD", "DD+"} \subseteq ret)
        /\ args.release_title = Example_DDPlus => ("DD+" \in ret /\ "DD" \notin ret)

\* a title in which keywords of both DD and DD+ were detected came back with DD+ only
InfoNeverDdAndDdPlusWitness ==
    /\ InfoDone
    /\ {"DD", "DD+"} \subseteq DetectInfo(locals.title)
    /\ "DD+" \in ret
    /\ "DD" \notin ret

\* C13: after the rule of lines 151-152, HEVC is in the set without having been
\* detected exactly when HDR or DV is in the set and no video codec tag at all was
\* detected.
InfoHevcInferredWithoutAnyCodec ==
    (fn = "get_info" /\ pc = "l153") =>
        (("HEVC" \in locals.info /\ "HEVC" \notin DetectInfo(locals.title))
            <=> (/\ locals.info \cap {"HDR", "DV"} # {}
                 /\ DetectInfo(locals.title) \cap INFO_STRUCT_videocodec = {}))

\* C14: when HDR and DV are both in the set after the rules of lines 141-146 and the
\* cleaned title contains neither hybrid nor the token hdr between two spaces, the set
\* returned has DV without HDR or HYBRID.
InfoDvAloneDropsHdr ==
    (/\ InfoDone
     /\ {"HDR", "DV"} \subseteq HdrSdrRule(locals.title, DetectInfo(locals.title))
     /\ ~Contains(locals.title, K_hybrid)
     /\ ~Contains(locals.title, <<" ", "h", "d", "r", " ">>))
        => ("DV" \in ret /\ "HDR" \notin ret /\ "HYBRID" \notin ret)

\* ------------------------- specification: check_episode_number_match

\* the pieces the titles of SpecEpisode are put together from
EpisodePieces == { <<"s","h","o","w"," ">>,
                   <<"S","h","o","w",".">>,
                   <<"s","0","1","e","0","2">>,
                   <<"S","0","1","E","0","2">>,
                   <<"s","1"," ","e","2">>,
                   <<" ">>,
                   <<"s","e","a","s","o","n"," ","1">>,
                   <<"s","e","a","s","o","n","1">>,
                   <<" ","e","p","i","s","o","d","e"," ","2">>,
                   <<"e","p","2">>,
                   <<" ","1","x","0","2">>,
                   <<" ","1"," ","x"," ","2">>,
                   <<"7","2","0","p">>,
                   <<"x">>,
                   <<"\n">> }

Example_Episode == <<"S","h","o","w",".","S","0","1","E","0","2",".","7","2","0","p">>
Example_SeasonComplete == <<"S","h","o","w",".","S","e","a","s","o","n",".","1",".","C","o","m","p","l","e","t","e">>

InitEpisode ==
    /\ fn = "check_episode_number_match"
    /\ args \in {[release_title |-> t] :
                    t \in ConcatsUpTo(EpisodePieces, MaxPieces)
                            \cup {Example_Episode, Example_SeasonComplete,
                                  clean_title(Example_Episode, 0),
                                  clean_title(Example_SeasonComplete, 0)}}
    /\ pc = "call"
    /\ locals = <<>>
    /\ ret = <<>>

\* the call check_episode_number_match(release_title) returns
EpisodeNumberMatchCall ==
    /\ fn = "check_episode_number_match" /\ pc = "call"
    /\ ret' = check_episode_number_match(args.release_title)
    /\ pc' = "done"
    /\ UNCHANGED <<fn, args, locals>>

NextEpisode == EpisodeNumberMatchCall

SpecEpisode == InitEpisode /\ [][NextEpisode]_vars

\* a season and episode marker as the specification describes it, anywhere in the
\* lowercased title: sNNeNN, season N episode N, or N x N
HasEpisodeMarker(t) ==
    LET s == Lower(t)
        P == 1..(Len(s) + 1)
    IN  \/ ReDigits(s, ReLit(s, <<"e">>, ReDigits(s, ReLit(s, <<"s">>, P)))) # {}
        \/ ReDigits(s, ReOpt(s, K_space, ReLit(s, K_episode,
               ReOpt(s, K_space, ReDigits(s, ReOpt(s, K_space, ReLit(s, K_season, P))))))) # {}
        \/ ReDigits(s, ReOpt(s, K_space, ReLit(s, <<"x">>,
               ReOpt(s, K_space, ReDigits(s, P))))) # {}

\* C3: check_episode_number_match returns True for every title that contains a season
\* and episode marker and False otherwise; True for Show.S01E02.720p and False for
\* Show.Season.1.Complete.
EpisodeMarkerDetected ==
    (fn = "check_episode_number_match" /\ pc = "done") =>
        /\ ret = HasEpisodeMarker(args.release_title)
        /\ args.release_title = Example_Episode => ret = TRUE
        /\ args.release_title = Example_SeasonComplete => ret = FALSE

\* ----------------------------- specification: get_filter_season_pack_fn

T_ShowName == <<"S","h","o","w"," ","N","a","m","e">>
T_TheShow == <<"T","h","e"," ","S","h","o","w"," ","(","U","S",")">>
Y_2010 == <<"2","0","1","0">>

\* the metadata records the season pack filter is built for
SeasonPackInfos ==
    {[show_title |-> T_ShowName, show_aliases |-> al, season_number |-> sn,
      year |-> Y_2010, country |-> [str |-> <<"u", "s">>], no_seasons |-> <<"1", "0">>] :
        al \in {<<>>, <<T_TheShow>>}, sn \in {<<"1">>, <<"5">>, <<"1", "0">>}}
    \cup {[show_title |-> <<".">>, show_aliases |-> <<>>, season_number |-> <<"5">>],
          [show_title |-> T_ShowName, season_number |-> <<"5">>]}

Example_SeasonPack == <<"S","h","o","w",".","N","a","m","e",".","S","0","5",".","C","o","m","p","l","e","t","e">>
Example_SeasonPackEpisode == <<"S","h","o","w",".","N","a","m","e",".","S","0","5","E","0","3">>

\* the pieces the candidate titles are put together from
SeasonPackPieces == { <<"s","h","o","w"," ","n","a","m","e"," ">>,
                      <<"t","h","e"," ","s","h","o","w"," ">>,
                      <<"s","5">>,
                      <<"s","0","5">>,
                      <<"s","%","0","5">>,
                      <<"s","1">>,
                      <<"s","1","0">>,
                      <<"s","e","a","s","o","n"," ","5">>,
                      <<"s","e","a","s","o","n"," ","0","5">>,
                      <<"0">>,
                      <<" ">>,
                      <<"e","0","3">>,
                      <<" ","c","o","m","p","l","e","t","e">> }

SeasonPackTitles ==
    ConcatsUpTo(SeasonPackPieces, MaxPieces)
        \cup {Example_SeasonPack, Example_SeasonPackEpisode,
              clean_title(Example_SeasonPack, 0), clean_title(Example_SeasonPackEpisode, 0)}

InitSeasonPack ==
    /\ fn = "get_filter_season_pack_fn"
    /\ args \in {[simple_info |-> si] : si \in SeasonPackInfos}
    /\ pc = "build"
    /\ locals = <<>>
    /\ ret = <<>>

\* get_filter_season_pack_fn(simple_info) returns the closure, or raises
SeasonPackBuild ==
    /\ fn = "get_filter_season_pack_fn" /\ pc = "build"
    /\ LET built == get_filter_season_pack_fn(args.simple_info)
       IN  IF "exc" \in DOMAIN built
           THEN /\ ret' = built
                /\ pc' = "raised"
                /\ UNCHANGED locals
           ELSE /\ locals' = [regex_pattern |-> built, release_title |-> None]
                /\ pc' = "built"
                /\ UNCHANGED ret
    /\ UNCHANGED <<fn, args>>

\* the closure is applied to a candidate title
SeasonPackFilter ==
    /\ fn = "get_filter_season_pack_fn" /\ pc = "built"
    /\ \E t \in SeasonPackTitles :
          /\ locals' = [locals EXCEPT !.release_title = t]
          /\ ret' = season_pack_filter_fn(locals.regex_pattern, t)
    /\ pc' = "done"
    /\ UNCHANGED <<fn, args>>

NextSeasonPack == SeasonPackBuild \/ SeasonPackFilter

SpecSeasonPack == InitSeasonPack /\ [][NextSeasonPack]_vars

\* the filter built for season 5 of the ten-season show Show Name
SeasonFiveFilter ==
    /\ fn = "get_filter_season_pack_fn" /\ pc = "done"
    /\ args.simple_info.show_title = T_ShowName
    /\ args.simple_info.season_number = <<"5">>

\* C4: the filter built for season 5 of Show Name accepts Show.Name.S05.Complete, here
\* in the cleaned form the filter is written for (the zero-filled s05 is one of the
\* accepted spellings), and rejects Show.Name.S05E03.
SeasonPackRoundTrip ==
    SeasonFiveFilter =>
        /\ locals.release_title = clean_title(Example_SeasonPack, 0) => ret = TRUE
        /\ locals.release_title \in {Example_SeasonPackEpisode,
                                     clean_title(Example_SeasonPackEpisode, 0)}
               => ret = FALSE


\* the closure was applied to a candidate title
SeasonPackDone == fn = "get_filter_season_pack_fn" /\ pc = "done"

\* C15: the season pack filter returns False for every title that contains a season
\* and episode marker, wherever the marker sits, the end of the title included.
SeasonPackRejectsEpisodes ==
    (SeasonPackDone /\ HasEpisodeMarker(locals.release_title)) => ret = FALSE

\* after the show titles of the pattern, the title t goes on with s or season and a
\* space, any zeros, the digits of season, and then no further digit
SeasonTokenDenotes(t, titles, season) ==
    LET word == ReAlt(t, {<<"s">>, K_season \o K_space}, ReAltPlus(t, titles, {1}))
        number == ReLit(t, season, ReAltStar(t, {<<"0">>}, word))
    IN  \E p \in number : p > Len(t) \/ t[p] \notin Digits

\* C20: the season pack filter for season S accepts a title only if the season token
\* after the show title denotes exactly season S; show s10 is rejected for S = 1.
SeasonPackExactSeason ==
    (SeasonPackDone /\ ret = TRUE)
        => SeasonTokenDenotes(locals.release_title, locals.regex_pattern.titles,
                              args.simple_info.season_number)

\* ------------------------------------ specification: filter_movie_title

Y_2020 == <<"2","0","2","0">>

\* the movie titles, metadata records and original release titles of SpecMovie
MovieTitles == { <<"F","o","o">>, <<"T","o","m","'","s"," ","F","o","o">> }
MovieInfos ==
    {[country |-> [str |-> <<"u", "s">>]],
     [year |-> <<>>, country |-> [str |-> <<"u", "s">>]],
     [year |-> Y_2020],
     [year |-> Y_2020, country |-> [list |-> <<K_gb, <<"U", "S">> >>]]}
MovieOrgTitles == { None, <<"F","o","o",".","2","0","2","0",".","1","0","8","0","p">>, <<"F","o","o",".","1","9","9","9",".","1","0","8","0","p">> }

\* the pieces the release titles are put together from
MoviePieces == { <<"f","o","o"," ">>,
                 <<"t","o","m","s"," ">>,
                 <<"t","o","m"," ","s"," ">>,
                 <<"t","o","m"," ">>,
                 <<"2","0","2","0">>,
                 <<"1","9","9","9">>,
                 <<" ","s","e","a","s","o","n"," ","1">>,
                 <<" ","s","0","1","e","0","2"," ">> }

InitMovie ==
    /\ fn = "filter_movie_title"
    /\ args \in {[org_release_title |-> o, release_title |-> t, movie_title |-> m,
                  simple_info |-> si] :
                    o \in MovieOrgTitles, t \in ConcatsUpTo(MoviePieces, MaxPieces),
                    m \in MovieTitles, si \in MovieInfos}
    /\ pc = "call"
    /\ locals = <<>>
    /\ ret = <<>>

\* the call filter_movie_title(...) returns
FilterMovieTitleCall ==
    /\ fn = "filter_movie_title" /\ pc = "call"
    /\ ret' = filter_movie_title(args.org_release_title, args.release_title,
                                 args.movie_title, args.simple_info)
    /\ pc' = "done"
    /\ UNCHANGED <<fn, args, locals>>

NextMovie == FilterMovieTitleCall

SpecMovie == InitMovie /\ [][NextMovie]_vars

MovieDone == fn = "filter_movie_title" /\ pc = "done"

\* simple_info has no year, or an empty one
MovieNoYear == Get(args.simple_info, "year", <<>>) = <<>>

\* C5 as stated: filter_movie_title is False whenever the year does not occur in the
\* release title, whatever org_release_title is (None included), and whenever
\* simple_info has no year.
MovieYearInReleaseTitle ==
    (MovieDone /\ (MovieNoYear \/ ~Contains(args.release_title, args.simple_info.year)))
        => ret = FALSE

\* C5 as amended: filter_movie_title is False whenever org_release_title is given (is
\* not None) and does not contain the year, whatever the release title and the movie
\* title are, and whenever simple_info has no year.
MovieYearInOrgTitle ==
    (MovieDone /\ (MovieNoYear
                   \/ (args.org_release_title # None
                       /\ ~Contains(args.org_release_title, args.simple_info.year))))
        => ret = FALSE

\* a release whose title matches the movie in every other respect was rejected because
\* the original release title lacks the year
MovieYearInOrgTitleWitness ==
    /\ MovieDone
    /\ ~MovieNoYear
    /\ args.org_release_title # None
    /\ ~Contains(args.org_release_title, args.simple_info.year)
    /\ filter_movie_title(None, args.release_title, args.movie_title, args.simple_info)
    /\ ret = FALSE

\* ------------------------------------------------ clear_extras_by_string

\* the k-th smallest element of a set of integers
NthSmallest(S, k) == CHOOSE i \in S : Cardinality({j \in S : j <= i}) = k

\* s.split(sep) for a one-character sep: the pieces between the separators
Split(s, sep) ==
    LET at == {i \in 1..Len(s) : s[i] = sep}
        cut == [k \in 0..(Cardinality(at) + 1) |->
                   IF k = 0 THEN 0
                   ELSE IF k = Cardinality(at) + 1 THEN Len(s) + 1
                   ELSE NthSmallest(at, k)]
    IN  [k \in 1..(Cardinality(at) + 1) |-> SubSeq(s, cut[k - 1] + 1, cut[k] - 1)]

\* the value of a decimal digit
DigitValue(c) == CHOOSE n \in 0..9 : <<"0","1","2","3","4","5","6","7","8","9">>[n + 1] = c

RECURSIVE int(_)
\* int(s) for a non-empty string of decimal digits
int(s) ==
    IF Len(s) = 1 THEN DigitValue(s[1])
    ELSE 10 * int(SubSeq(s, 1, Len(s) - 1)) + DigitValue(s[Len(s)])

\* line 795: the name of the file, ampersands made spaces, lowered and cleaned
CleanFileName(path) ==
    Bind(Split(path, "/"), LAMBDA folders :
    Bind(Lower(Replace(folders[Len(folders)], <<"&">>, <<" ">>)), LAMBDA name :
    clean_title(name, 0)))

\* line 800: some folder of the path is the marker, whatever the case
FolderIsExtra(path, extra_string) ==
    \E k \in DOMAIN Split(path, "/") : Lower(Split(path, "/")[k]) = Lower(extra_string)

\* clear_extras_by_string(args, extra_string, folder_details), info being args["info"]
clear_extras_by_string(info, extra_string, folder_details) ==
    IF int(Get(info, "season", <<"1">>)) = 0 THEN folder_details
    ELSE IF \E key \in {"title", "tvshowtitle"} : Contains(Get(info, key, <<>>), extra_string)
    THEN <<>>
    ELSE Bind(SelectSeq(folder_details,
                        LAMBDA i : ~Contains(CleanFileName(i.path), extra_string)), LAMBDA fd1 :
         Bind(SelectSeq(fd1, LAMBDA i : ~FolderIsExtra(i.path, extra_string)), LAMBDA fd2 :
         SelectSeq(fd2, LAMBDA i : ~Contains(i.path, extra_string))))

\* the markers of filter_files_for_resolving, in the order of lines 818-822
EXTRA_STRINGS == << <<"e","x","t","r","a","s">>,
                    <<"s","p","e","c","i","a","l","s">>,
                    <<"f","e","a","t","u","r","e","t","t","e","s">>,
                    <<"d","e","l","e","t","e","d"," ","s","c","e","n","e","s">>,
                    <<"s","a","m","p","l","e">> >>

\* ---------------------------------------------------------- SpecExtras

MaxFiles == 2

\* the metadata of the item: title, tvshowtitle and season may each be missing
ExtrasInfos ==
    {[k \in K |-> full[k]] :
        K \in SUBSET {"title", "tvshowtitle", "season"},
        full \in {[title |-> t, tvshowtitle |-> <<"s","a","m","p","l","e"," ","s","h","o","w">>,
                   season |-> s] :
                     t \in { <<"F","o","o">>,
                             <<"T","h","e"," ","S","p","e","c","i","a","l","s">>,
                             <<"t","h","e"," ","s","p","e","c","i","a","l","s">> },
                     s \in { <<"0">>, <<"1">> }}}

\* the files of the folder
ExtrasPaths == { <<"F","o","o","/","f","o","o",".","m","k","v">>,
                 <<"F","o","o","/","E","x","t","r","a","s","/","a",".","m","k","v">>,
                 <<"F","o","o","/","s","a","m","p","l","e",".","m","k","v">>,
                 <<"s","p","e","c","i","a","l","s","/","e","1",".","m","k","v">>,
                 <<"F","o","o","/","D","e","l","e","t","e","d","&","S","c","e","n","e","s",".","m","k","v">> }

ExtrasFolders == SeqsUpTo({[path |-> p] : p \in ExtrasPaths}, MaxFiles)

InitExtras ==
    /\ \/ /\ fn = "clear_extras_by_string"
          /\ args \in {[info |-> i, extra_string |-> EXTRA_STRINGS[e], folder_details |-> f] :
                          i \in ExtrasInfos, e \in DOMAIN EXTRA_STRINGS, f \in ExtrasFolders}
          /\ pc = "call"
          /\ locals = <<>>
       \/ /\ fn = "filter_files_for_resolving"
          /\ args \in {[info |-> i, folder_details |-> f] :
                          i \in ExtrasInfos, f \in ExtrasFolders}
          /\ pc = "l818"
          /\ locals = [folder_details |-> args.folder_details]
    /\ ret = <<>>

\* the call clear_extras_by_string(args, extra_string, folder_details) returns
ClearExtrasCall ==
    /\ fn = "clear_extras_by_string" /\ pc = "call"
    /\ ret' = clear_extras_by_string(args.info, args.extra_string, args.folder_details)
    /\ pc' = "done"
    /\ UNCHANGED <<fn, args, locals>>

\* the lines of filter_files_for_resolving, one per marker, and its return
FilterFilesLines == <<"l818", "l819", "l820", "l821", "l822", "l823">>

\* lines 818-822: one marker is cleared from the list
FilterFilesStep ==
    /\ fn = "filter_files_for_resolving"
    /\ \E k \in DOMAIN EXTRA_STRINGS :
          /\ pc = FilterFilesLines[k]
          /\ locals' = [folder_details |->
                           clear_extras_by_string(args.info, EXTRA_STRINGS[k],
                                                  locals.folder_details)]
          /\ pc' = FilterFilesLines[k + 1]
    /\ UNCHANGED <<fn, args, ret>>

\* line 823
FilterFilesReturn ==
    /\ fn = "filter_files_for_resolving" /\ pc = "l823"
    /\ ret' = locals.folder_details
    /\ pc' = "done"
    /\ UNCHANGED <<fn, args, locals>>

NextExtras == ClearExtrasCall \/ FilterFilesStep \/ FilterFilesReturn

SpecExtras == InitExtras /\ [][NextExtras]_vars

\* the season of the item is not the specials season 0
ExtrasSeasonNotZero == int(Get(args.info, "season", <<"1">>)) # 0

\* the title or the tvshowtitle of the item contains the marker
ExtrasMarkerInTitle(extra_string) ==
    \E key \in {"title", "tvshowtitle"} : Contains(Get(args.info, key, <<>>), extra_string)

\* C6: when the marker occurs in the title or the tvshowtitle of the item and the
\* season is not 0, clear_extras_by_string returns the list it was given.
ExtrasKeptForOwnTitle ==
    (/\ fn = "clear_extras_by_string" /\ pc = "done"
     /\ ExtrasSeasonNotZero
     /\ ExtrasMarkerInTitle(args.extra_string))
        => ret = args.folder_details

\* -------------------------------------------- get_filter_single_episode_fn

\* the characters re.escape puts a backslash before
ReSpecialChars == {"(", ")", "[", "]", "{", "}", "?", "*", "+", "-", "|", "^", "$",
                   "\\", ".", "&", "~", "#", " ", "\t", "\n", "\r", VTab, "\f"}

\* re.escape(s)
re_escape(s) ==
    Join([i \in 1..Len(s) |-> IF s[i] \in ReSpecialChars THEN <<"\\", s[i]>> ELSE <<s[i]>>],
         <<>>)

RECURSIVE re_literal(_)
\* the text an escaped pattern matches: a backslash goes and the character after it
\* stands for itself
re_literal(pattern) ==
    IF pattern = <<>> THEN <<>>
    ELSE IF pattern[1] = "\\" /\ Len(pattern) >= 2
         THEN <<pattern[2]>> \o re_literal(Drop(pattern, 2))
    ELSE <<pattern[1]>> \o re_literal(Drop(pattern, 1))

\* \d
ReDigit(s, P) == {p + 1 : p \in {q \in P : q <= Len(s) /\ s[q] \in Digits}}

\* check_episode_title_match(show_titles, release_title, simple_info)
check_episode_title_match(show_titles, release_title, simple_info) ==
    Bind(clean_title(release_title, 0), LAMBDA cleaned :
        IF Get(simple_info, "episode_title", None) = None THEN FALSE
        ELSE Bind(clean_title(simple_info.episode_title, 0), LAMBDA episode_title :
             /\ Len(Split(episode_title, " ")) >= 3
             /\ Contains(cleaned, episode_title)
             /\ \E i \in DOMAIN show_titles :
                    StartsWith(cleaned, clean_title(show_titles[i], 0))))

\* the keys read inside the try block of lines 427-435
SingleEpisodeKeys == {"show_title", "season_number", "episode_number", "show_aliases"}

\* get_filter_single_episode_fn(simple_info): what the closure keeps, that is, the
\* escaped cleaned titles, the escaped year, season and episode the pattern of line 443
\* is formatted with, and simple_info, or the exception raised.  The year is read at
\* line 446, after the try block.
get_filter_single_episode_fn(simple_info) ==
    IF ~(SingleEpisodeKeys \subseteq DOMAIN simple_info)
    THEN [exc |-> "CannotGenerateRegexFilterException"]
    ELSE Bind(<<simple_info.show_title>> \o simple_info.show_aliases, LAMBDA titles :
         Bind([i \in DOMAIN titles |->
                  re_escape(clean_title_with_simple_info(titles[i], simple_info))],
              LAMBDA clean_titles :
         IF "year" \notin DOMAIN simple_info THEN [exc |-> "KeyError"]
         ELSE [clean_titles |-> clean_titles,
               year |-> re_escape(simple_info.year),
               ss |-> re_escape(simple_info.season_number),
               ep |-> re_escape(simple_info.episode_number),
               simple_info |-> simple_info]))

\* one season and episode token of the pattern, from the positions P:
\* s0?{ss}e0?{ep}(?: |e\d\d?) or season\ 0?{ss}\ episode\ 0?{ep}
SingleEpisodeToken(s, ss, ep, P) ==
    LET Zero(Q) == ReOpt(s, <<"0">>, Q)
        short == ReLit(s, ep, Zero(ReLit(s, <<"e">>, ReLit(s, ss, Zero(ReLit(s, <<"s">>, P))))))
        more == ReDigit(s, ReLit(s, <<"e">>, short))
        long == ReLit(s, ep, Zero(ReLit(s, <<" ">> \o K_episode \o <<" ">>,
                    ReLit(s, ss, Zero(ReLit(s, K_season \o <<" ">>, P))))))
    IN  ReLit(s, K_space, short) \cup more \cup ReDigit(s, more) \cup long

RECURSIVE SingleEpisodeTokenStar(_, _, _, _)
\* any number of tokens
SingleEpisodeTokenStar(s, ss, ep, P) ==
    LET Q == P \cup SingleEpisodeToken(s, ss, ep, P)
    IN  IF Q = P THEN P ELSE SingleEpisodeTokenStar(s, ss, ep, Q)

\* the positions after the start of the pattern of line 443: the titles, joined by an
\* optional space and a bar, so that every title but the last takes a space after it,
\* then an optional space, the optional year and an optional space
SingleEpisodePrefix(regex, s) ==
    LET n == Len(regex.clean_titles)
        titles == {re_literal(regex.clean_titles[i]) : i \in 1..n}
                      \cup {re_literal(regex.clean_titles[i]) \o <<" ">> : i \in 1..(n - 1)}
    IN  ReOpt(s, K_space, ReOpt(s, re_literal(regex.year),
            ReOpt(s, K_space, ReAltPlus(s, titles, {1}))))

\* regex.match(release_title) is not None
single_episode_regex_match(regex, s) ==
    SingleEpisodeTokenStar(s, re_literal(regex.ss), re_literal(regex.ep),
        SingleEpisodeToken(s, re_literal(regex.ss), re_literal(regex.ep),
                           SingleEpisodePrefix(regex, s))) # {}

\* filter_fn(release_title) of the single episode filter
single_episode_filter_fn(regex, release_title) ==
    Bind(clean_title(release_title, 0), LAMBDA cleaned :
        IF single_episode_regex_match(regex, cleaned) THEN TRUE
        ELSE check_episode_title_match(regex.clean_titles, cleaned, regex.simple_info))

\* ------------------------------------------------------ SpecSingleEpisode

T_LongGoodbye == <<"T","h","e"," ","L","o","n","g"," ","G","o","o","d","b","y","e">>

\* the metadata records the single episode filter is built for: every subset of the
\* keys of a full record
SingleEpisodeInfos ==
    {[k \in K |-> full[k]] :
        K \in SUBSET {"show_title", "season_number", "episode_number", "show_aliases",
                      "year", "country", "episode_title"},
        full \in {[show_title |-> t, show_aliases |-> al, season_number |-> <<"1">>,
                   episode_number |-> ep, year |-> Y_2010,
                   country |-> [str |-> <<"u", "s">>],
                   episode_title |-> T_LongGoodbye] :
                     t \in {T_ShowName, T_TheShow},
                     al \in {<<>>, <<T_TheShow>>},
                     ep \in {<<"2">>, <<"1", "0">>}}}

\* the pieces the candidate titles are put together from
SingleEpisodePieces == { <<"S","h","o","w",".","N","a","m","e",".">>,
                         <<"t","h","e"," ","s","h","o","w"," ">>,
                         <<"2","0","1","0"," ">>,
                         <<"s","0","1","e","0","2">>,
                         <<"s","1","e","2">>,
                         <<"s","0","1","e","1","0">>,
                         <<"s","e","a","s","o","n"," ","1"," ","e","p","i","s","o","d","e"," ","2">>,
                         <<"e","0","3">>,
                         <<" ","7","2","0","p">>,
                         <<" ","t","h","e"," ","l","o","n","g"," ","g","o","o","d","b","y","e">> }

SingleEpisodeTitles == ConcatsUpTo(SingleEpisodePieces, MaxPieces)

InitSingleEpisode ==
    /\ fn = "get_filter_single_episode_fn"
    /\ args \in {[simple_info |-> si] : si \in SingleEpisodeInfos}
    /\ pc = "call"
    /\ locals = <<>>
    /\ ret = <<>>

\* the call get_filter_single_episode_fn(simple_info) returns the closure, or raises
SingleEpisodeBuild ==
    /\ fn = "get_filter_single_episode_fn" /\ pc = "call"
    /\ LET built == get_filter_single_episode_fn(args.simple_info)
       IN  IF "exc" \in DOMAIN built
           THEN /\ ret' = built
                /\ pc' = "raised"
                /\ UNCHANGED locals
           ELSE /\ locals' = [regex |-> built, release_title |-> None]
                /\ pc' = "built"
                /\ UNCHANGED ret
    /\ UNCHANGED <<fn, args>>

\* the closure is applied to a candidate title
SingleEpisodeFilter ==
    /\ fn = "get_filter_single_episode_fn" /\ pc = "built"
    /\ \E t \in SingleEpisodeTitles :
          /\ locals' = [locals EXCEPT !.release_title = t]
          /\ ret' = single_episode_filter_fn(locals.regex, t)
    /\ pc' = "done"
    /\ UNCHANGED <<fn, args>>

NextSingleEpisode == SingleEpisodeBuild \/ SingleEpisodeFilter

SpecSingleEpisode == InitSingleEpisode /\ [][NextSingleEpisode]_vars

\* C7: whenever simple_info lacks one of show_title, season_number, episode_number,
\* show_aliases and year, get_filter_single_episode_fn raises
\* CannotGenerateRegexFilterException and no other exception.
SingleEpisodeMissingField ==
    (/\ fn = "get_filter_single_episode_fn" /\ pc # "call"
     /\ ~(SingleEpisodeKeys \cup {"year"} \subseteq DOMAIN args.simple_info))
        => (pc = "raised" /\ ret = [exc |-> "CannotGenerateRegexFilterException"])

\* the closure was applied to a candidate title
SingleEpisodeDone == fn = "get_filter_single_episode_fn" /\ pc = "done"

\* the title t starts with a show title of the pattern, optionally the year, and then
\* a token of season ss and episode ep: s or season, any zeros, ss, e or episode, any
\* zeros, ep, and then no further digit
EpisodeTokenDenotes(regex, t, ss, ep) ==
    LET Zeros(Q) == ReAltStar(t, {<<"0">>}, Q)
        P == SingleEpisodePrefix(regex, t)
        short == ReLit(t, ep, Zeros(ReLit(t, <<"e">>, ReLit(t, ss, Zeros(ReLit(t, <<"s">>, P))))))
        long == ReLit(t, ep, Zeros(ReLit(t, <<" ">> \o K_episode \o <<" ">>,
                    ReLit(t, ss, Zeros(ReLit(t, K_season \o <<" ">>, P))))))
    IN  \E p \in short \cup long : p > Len(t) \/ t[p] \notin Digits

\* C19: without an episode_title in simple_info, the single episode filter accepts a
\* release only if its cleaned title starts with a show title, optionally the year, and
\* a token that denotes exactly season S and episode E; season 1 episode 20 is not
\* accepted for episode 2.
SingleEpisodeExactEpisode ==
    (SingleEpisodeDone /\ "episode_title" \notin DOMAIN args.simple_info /\ ret = TRUE)
        => EpisodeTokenDenotes(locals.regex, clean_title(locals.release_title, 0),
                               args.simple_info.season_number,
                               args.simple_info.episode_number)

\* --------------------------------------------------------- de_string_size

\* a quotient rounded towards zero, as int() rounds a float; b is positive
TruncDiv(a, b) == IF a >= 0 THEN a \div b ELSE -((-a) \div b)

\* The text of a number as float() and int() read it, for texts of digits, dots, signs,
\* spaces and letters: surrounding whitespace goes, one sign may lead, and the rest is
\* digits with at most one dot (at least one digit).  The result gives the digits
\* without the dot and the count of digits after it; ok is FALSE where float() raises
\* ValueError.
ParseDecimal(text) ==
    Bind(Strip(text), LAMBDA s :
    Bind(IF s # <<>> /\ s[1] \in {"-", "+"} THEN Tail(s) ELSE s, LAMBDA body :
    Bind({i \in 1..Len(body) : body[i] = "."}, LAMBDA dots :
    Bind(SelectSeq(body, LAMBDA c : c \in Digits), LAMBDA digits :
        IF Cardinality(dots) <= 1 /\ digits # <<>>
           /\ Len(digits) + Cardinality(dots) = Len(body)
        THEN [ok |-> TRUE,
              neg |-> s[1] = "-",
              mant |-> int(digits),
              decimals |-> IF dots = {} THEN 0 ELSE Len(body) - Min(dots)]
        ELSE [ok |-> FALSE]))))

\* int(float(text) * num / 10^shift): the value of lines 835-836, 841-842 and 847-850,
\* or the ValueError of float()
ScaledFloat(text, num, shift) ==
    Bind(ParseDecimal(text), LAMBDA f :
        IF ~f.ok THEN [exc |-> "ValueError"]
        ELSE [val |-> TruncDiv((IF f.neg THEN -1 ELSE 1) * f.mant * num,
                               10 ^ (f.decimals + shift))])

\* int(text.replace(" ", "").split(".")[0]): the value of lines 838-839 and 844-845, or
\* the ValueError of int()
WholePart(text) ==
    Bind(Split(Replace(text, <<" ">>, <<>>), ".")[1], LAMBDA whole :
    Bind(ParseDecimal(whole), LAMBDA f :
        IF ~f.ok THEN [exc |-> "ValueError"]
        ELSE [val |-> (IF f.neg THEN -1 ELSE 1) * f.mant]))

U_GB == <<"G","B">>
U_MB == <<"M","B">>
U_KB == <<"K","B">>
U_MiB == <<"M","i","B">>
U_GiB == <<"G","i","B">>
U_KiB == <<"K","i","B">>

\* de_string_size(size): [val |-> n] for a returned number, [val |-> None] for the
\* return without a value at the end of the function, [exc |-> e] for an exception
de_string_size(size) ==
    IF Contains(size, U_GB) THEN ScaledFloat(Replace(size, U_GB, <<>>), 1024, 0)
    ELSE IF Contains(size, U_MB) THEN WholePart(Replace(size, U_MB, <<>>))
    ELSE IF Contains(size, U_KB) THEN ScaledFloat(Replace(size, U_KB, <<>>), 1, 3)
    ELSE IF Contains(size, U_MiB) THEN WholePart(Replace(size, U_MiB, <<>>))
    ELSE IF Contains(size, U_GiB) THEN ScaledFloat(Replace(size, U_GiB, <<>>), 1024, 0)
    ELSE IF Contains(size, U_KiB) THEN ScaledFloat(Replace(size, U_KiB, <<>>), 1024, 6)
    ELSE [val |-> None]

\* ---------------------------------------------------------------- SpecSize

\* the characters of the text before the unit, and the units and endings of the sizes
SizeChars == {"1", "5", "0", ".", " ", "-", "x"}
SizeUnits == {<<>>, U_GB, U_MB, U_KB, U_MiB, U_GiB, U_KiB, <<"T","B">>}
SizeEndings == {<<>>, <<" ">>, U_GB}

InitSize ==
    /\ fn = "de_string_size"
    /\ args \in {[size |-> n \o u \o e] :
                    n \in SeqsUpTo(SizeChars, MaxPieces), u \in SizeUnits, e \in SizeEndings}
    /\ pc = "call"
    /\ locals = <<>>
    /\ ret = <<>>

\* the call de_string_size(size) returns or raises
DeStringSizeCall ==
    /\ fn = "de_string_size" /\ pc = "call"
    /\ ret' = de_string_size(args.size)
    /\ pc' = IF "exc" \in DOMAIN ret' THEN "raised" ELSE "done"
    /\ UNCHANGED <<fn, args, locals>>

NextSize == DeStringSizeCall

SpecSize == InitSize /\ [][NextSize]_vars

\* the size names none of the units GB, MB, KB, MiB, GiB and KiB
SizeWithoutUnit ==
    \A u \in {U_GB, U_MB, U_KB, U_MiB, U_GiB, U_KiB} : ~Contains(args.size, u)

\* C18: de_string_size never raises, and returns None for a size without a recognised
\* unit.
SizeNeverRaises ==
    (fn = "de_string_size" /\ pc # "call") =>
        /\ pc # "raised"
        /\ SizeWithoutUnit => ret = [val |-> None]

\* ------------------------------------------------ _full_meta_episode_regex

\* The pattern of _full_meta_episode_regex is run as the engine runs it, with the order
\* in which it tries the ways to match: P is the sequence of the positions reached, the
\* one tried first at the head, and each operator gives the positions after one more
\* piece of the pattern, in the order of the backtracking.  The match is the head of the
\* sequence at the end of the pattern.  The titles, the country and the year are put
\* into the pattern as they are, not escaped: here they hold letters, digits and spaces.

\* the concatenation of a sequence of sequences
Flatten(ss) == Join(ss, <<>>)

\* a literal t
OLit(s, t, P) ==
    Flatten([k \in 1..Len(P) |->
                IF OccursAt(s, t, P[k]) THEN <<P[k] + Len(t)>> ELSE <<>>])

\* one of the literals of the sequence alts, the first one first
OAlt(s, alts, P) ==
    Flatten([k \in 1..Len(P) |-> Flatten([a \in 1..Len(alts) |-> OLit(s, alts[a], <<P[k]>>)])])

\* an optional group, greedy: the positions Q(k) the group reaches from P[k], then P[k]
OOptional(P, Q) == Flatten([k \in 1..Len(P) |-> Q[k] \o <<P[k]>>])

\* t?
OOpt(s, t, P) == OOptional(P, [k \in 1..Len(P) |-> OLit(s, t, <<P[k]>>)])

\* (?:alts[1]|alts[2]|...)?
OOptAlt(s, alts, P) == OOptional(P, [k \in 1..Len(P) |-> OAlt(s, alts, <<P[k]>>)])

\* one character of the class C
OClass(s, C, P) ==
    Flatten([k \in 1..Len(P) |->
                IF P[k] <= Len(s) /\ s[P[k]] \in C THEN <<P[k] + 1>> ELSE <<>>])

\* [C]?
OOptClass(s, C, P) == OOptional(P, [k \in 1..Len(P) |-> OClass(s, C, <<P[k]>>)])

\* _full_meta_episode_regex(args), args being item_information: the parts the pattern of lines 721-738 is formatted
\* with, or the KeyError of line 711; episode_title None is the empty string here, which
\* line 740 treats alike
_full_meta_episode_regex(item_information) ==
    IF "tvshowtitle" \notin DOMAIN item_information.info THEN [exc |-> "KeyError"]
    ELSE Bind(clean_title(item_information.info.tvshowtitle, 0), LAMBDA show_title :
         Bind(Get(item_information.info, "country", [str |-> <<>>]), LAMBDA country :
         Bind(clean_title(Get(item_information.info, "title", <<>>), 0), LAMBDA episode_title :
         [show_title |-> show_title,
          country |-> IF "list" \in DOMAIN country
                      THEN IF country.list = <<>> THEN << <<>> >>
                           ELSE [i \in DOMAIN country.list |-> Lower(country.list[i])]
                      ELSE << Lower(country.str) >>,
          year |-> Get(item_information.info, "year", <<>>),
          season |-> Get(item_information.info, "season", <<>>),
          episode |-> Get(item_information.info, "episode", <<>>),
          episode_title |-> IF \/ episode_title = show_title
                               \/ (episode_title # <<>>
                                   /\ \A i \in DOMAIN episode_title : episode_title[i] \in Digits)
                            THEN <<>>
                            ELSE episode_title])))

\* the first alternative of the pattern, from the position p: the optional show title,
\* country and year, each with an optional space, the season in one of its three
\* spellings, the episode and the closing space
EpisodeRegexMain(regex, s, p) ==
    Bind(OOpt(s, K_space, OOpt(s, regex.year,
         OOpt(s, K_space, OOptAlt(s, regex.country,
         OOpt(s, K_space, OOpt(s, regex.show_title, <<p>>)))))), LAMBDA P :
    Bind(OClass(s, {"x", " ", ".", "e"},
             OLit(s, regex.season, OOpt(s, <<"0">>, OOptClass(s, {"s", "["}, P))))
         \o OLit(s, K_episode \o K_space,
                OLit(s, regex.season \o K_space, OOpt(s, <<"0">>, OLit(s, K_season \o K_space, P))))
         \o OOpt(s, K_space, OLit(s, K_space \o K_ep, P)), LAMBDA Q :
    Bind(OOptional(Q, [k \in 1..Len(Q) |->
             OLit(s, <<"e">>, OOptClass(s, Digits, OOptClass(s, Digits, <<Q[k]>>)))]),
         LAMBDA R :
    Bind(OLit(s, regex.episode, OOpt(s, <<"0">>, R)), LAMBDA S :
    Bind(OOptional(S, [k \in 1..Len(S) |->
             OClass(s, Digits, OClass(s, Digits, OLit(s, <<"e">>, <<S[k]>>)))]),
         LAMBDA T :
    OLit(s, K_space, OOpt(s, <<"]">>, T)))))))

\* the position after the match of the pattern that starts at p, or 0
EpisodeRegexMatchAt(regex, s, p) ==
    Bind(EpisodeRegexMain(regex, s, p)
         \o (IF regex.episode_title # <<>> THEN OLit(s, regex.episode_title, <<p>>) ELSE <<>>),
         LAMBDA ends :
    IF ends = <<>> THEN 0 ELSE ends[1])

RECURSIVE regex_findall_from(_, _, _)
\* the scan of regex.findall from the position p on: the matches do not overlap
regex_findall_from(regex, s, p) ==
    IF p > Len(s) THEN <<>>
    ELSE Bind(EpisodeRegexMatchAt(regex, s, p), LAMBDA e :
         IF e = 0 THEN regex_findall_from(regex, s, p + 1)
         ELSE <<SubSeq(s, p, e - 1)>> \o regex_findall_from(regex, s, e))

\* regex.findall(s): the pattern has no capturing group and no empty match, so the list
\* holds the matched texts
regex_findall(regex, s) == regex_findall_from(regex, s, 1)

\* ------------------------------------------------ get_best_episode_match

\* line 762: i.update({"regex_matches": ...}) gives the record i itself the key
\* regex_matches, the matches of the pattern in the cleaned last segment of i[dict_key]
candidate_update(regex, dict_key, i) ==
    [k \in DOMAIN i \cup {"regex_matches"} |->
        IF k = "regex_matches" THEN regex_findall(regex, CleanFileName(i[dict_key])) ELSE i[k]]

\* line 770: the key of the sort, len(" ".join(x["regex_matches"]))
match_length(x) == Len(Join(x.regex_matches, <<" ">>))

\* sorted(files, key=match_length): the mutant of sorted_reverse that puts the smaller
\* key first
sorted_forward(files) ==
    LET before(j, i) == \/ match_length(files[j]) < match_length(files[i])
                        \/ (match_length(files[j]) = match_length(files[i]) /\ j < i)
        rank(i) == Cardinality({j \in DOMAIN files : before(j, i)}) + 1
    IN  [r \in DOMAIN files |-> files[CHOOSE i \in DOMAIN files : rank(i) = r]]

\* line 770, sorted(files, key=match_length, reverse=True): the greater key first, and
\* the order of files kept among equal keys
sorted_reverse(files) ==
    LET before(j, i) == \/ match_length(files[j]) > match_length(files[i])
                        \/ (match_length(files[j]) = match_length(files[i]) /\ j < i)
        rank(i) == Cardinality({j \in DOMAIN files : before(j, i)}) + 1
    IN  [r \in DOMAIN files |-> files[CHOOSE i \in DOMAIN files : rank(i) = r]]

\* lines 765-774 of get_best_episode_match, files being the records after the loop:
\* None when no record has a match, else the first record of the sorted list
best_of(files) ==
    Bind(SelectSeq(files, LAMBDA i : Len(i.regex_matches) > 0), LAMBDA matched :
    IF matched = <<>> THEN [found |-> FALSE]
    ELSE [found |-> TRUE, file |-> sorted_reverse(matched)[1]])

\* get_best_episode_match(dict_key, dictionary_list, item_information): the value it
\* returns, found FALSE for None, or the KeyError of _full_meta_episode_regex
get_best_episode_match(dict_key, dictionary_list, item_information) ==
    Bind(_full_meta_episode_regex(item_information), LAMBDA regex :
    IF "exc" \in DOMAIN regex THEN regex
    ELSE best_of([k \in DOMAIN dictionary_list |->
                     candidate_update(regex, dict_key, dictionary_list[k])]))

\* ---------------------------------------------------------------- SpecBestMatch

\* the item_information of the calls: the show Show Name, season 1, episode 2
BestMatchInfos ==
    {[info |-> i] :
        i \in {[tvshowtitle |-> T_ShowName, season |-> <<"1">>, episode |-> <<"2">>]}
              \cup {[tvshowtitle |-> T_ShowName, season |-> <<"1">>, episode |-> <<"2">>,
                     title |-> t] :
                       t \in {<<"P","i","l","o","t">>, T_ShowName, <<"1","2">>}}
              \cup {[tvshowtitle |-> T_ShowName, season |-> <<"1">>, episode |-> <<"2">>,
                     title |-> <<"P","i","l","o","t">>, country |-> c, year |-> <<"2","0","1","0">>] :
                       c \in {[str |-> <<"U","S">>], [list |-> << <<"U","S">>, <<"G","B">> >>]}}
              \cup {[season |-> <<"1">>, episode |-> <<"2">>]}}

\* the pieces the file names are made of
BestMatchPieces ==
    { <<"s","h","o","w"," ","n","a","m","e"," ">>,
      <<"u","s"," ">>,
      <<"2","0","1","0"," ">>,
      <<"s","0","1","e","0","2"," ">>,
      <<"1","x","0","2"," ">>,
      <<"s","0","1","e","0","1","e","0","2"," ">>,
      <<"s","e","a","s","o","n"," ","1"," ","e","p","i","s","o","d","e"," ","2"," ">>,
      <<" ","e","p"," ","2"," ">>,
      <<"s","0","1","e","0","3"," ">>,
      <<"p","i","l","o","t"," ">> }

\* the paths of the candidate lists
BestMatchPaths ==
    { <<"S","h","o","w","/","S","h","o","w",".","N","a","m","e",".","S","0","1","E","0","2",".","m","k","v">>,
      <<"S","0","1","E","0","2",".","m","k","v">>,
      <<"P","i","l","o","t",".","S","0","1","E","0","2",".","m","k","v">>,
      <<"S","0","1","E","0","2",".","P","i","l","o","t",".","m","k","v">>,
      <<"S","h","o","w",".","N","a","m","e",".","S","0","1","E","0","3",".","m","k","v">>,
      <<"S","0","1","E","0","2","/","s","a","m","p","l","e",".","m","k","v">> }

InitBestMatch ==
    /\ fn = "get_best_episode_match"
    /\ args \in {[dict_key |-> "path", dictionary_list |-> d, item_information |-> i] :
                    d \in {<<[path |-> p]>> : p \in ConcatsUpTo(BestMatchPieces, MaxPieces)}
                          \cup {[k \in DOMAIN ps |-> [path |-> ps[k]]] :
                                   ps \in SeqsUpTo(BestMatchPaths, MaxFiles)},
                    i \in BestMatchInfos}
    /\ pc = "l757"
    /\ locals = <<>>
    /\ ret = <<>>

\* line 757: the pattern is built, or the KeyError comes out
BestMatchRegex ==
    /\ fn = "get_best_episode_match" /\ pc = "l757"
    /\ LET regex == _full_meta_episode_regex(args.item_information)
       IN  IF "exc" \in DOMAIN regex
           THEN /\ ret' = regex
                /\ pc' = "raised"
                /\ UNCHANGED locals
           ELSE /\ locals' = [regex |-> regex, files |-> <<>>]
                /\ pc' = "l760"
                /\ UNCHANGED ret
    /\ UNCHANGED <<fn, args>>

\* lines 760-764, one turn of the loop: the next record of dictionary_list is updated in
\* place and appended to files
BestMatchUpdate ==
    /\ fn = "get_best_episode_match" /\ pc = "l760"
    /\ Len(locals.files) < Len(args.dictionary_list)
    /\ LET k == Len(locals.files) + 1
           i == candidate_update(locals.regex, args.dict_key, args.dictionary_list[k])
       IN  /\ args' = [args EXCEPT !.dictionary_list =
                          [j \in DOMAIN args.dictionary_list |->
                              IF j = k THEN i ELSE args.dictionary_list[j]]]
           /\ locals' = [locals EXCEPT !.files = Append(locals.files, i)]
    /\ UNCHANGED <<fn, pc, ret>>

\* lines 765-774: the end of the loop and the return
BestMatchReturn ==
    /\ fn = "get_best_episode_match" /\ pc = "l760"
    /\ Len(locals.files) = Len(args.dictionary_list)
    /\ ret' = best_of(locals.files)
    /\ pc' = "done"
    /\ UNCHANGED <<fn, args, locals>>

NextBestMatch == BestMatchRegex \/ BestMatchUpdate \/ BestMatchReturn

SpecBestMatch == InitBestMatch /\ [][NextBestMatch]_vars

BestMatchDone == fn = "get_best_episode_match" /\ pc = "done"

\* the matches of the pattern of the call in the file name of the k-th candidate, and
\* the length of the matches joined by spaces
BestMatchMatches(k) ==
    regex_findall(_full_meta_episode_regex(args.item_information),
                  CleanFileName(args.dictionary_list[k][args.dict_key]))

BestMatchScore(k) == Len(Join(BestMatchMatches(k), <<" ">>))

\* C17: get_best_episode_match returns None if and only if no candidate's file name
\* (the cleaned last segment of its path) has a match of the pattern; otherwise it
\* returns the candidate whose matches joined by spaces are the longest, the earliest of
\* the list when several are as long.
BestMatchIsEarliestMaximal ==
    BestMatchDone =>
        Bind([k \in DOMAIN args.dictionary_list |-> BestMatchMatches(k)], LAMBDA matches :
        Bind([k \in DOMAIN matches |-> Len(Join(matches[k], <<" ">>))], LAMBDA score :
        /\ ~ret.found <=> \A k \in DOMAIN matches : matches[k] = <<>>
        /\ ret.found =>
              \E k \in DOMAIN matches :
                  /\ ret.file = args.dictionary_list[k]
                  /\ matches[k] # <<>>
                  /\ \A j \in DOMAIN matches :
                        /\ score[j] <= score[k]
                        /\ j < k => score[j] < score[k]))

\* two candidates of different paths whose matches are as long, the first one returned
BestMatchIsEarliestMaximalWitness ==
    /\ BestMatchDone
    /\ Len(args.dictionary_list) = 2
    /\ args.dictionary_list[1].path # args.dictionary_list[2].path
    /\ BestMatchScore(1) = BestMatchScore(2)
    /\ BestMatchScore(1) > 0
    /\ ret.found
    /\ ret.file.path = args.dictionary_list[1].path

\* C16: no matcher function mutates its inputs; for get_best_episode_match, the
\* dictionary_list and every candidate record of it, and the item_information, are after
\* every step of the call what the caller passed.
BestMatchInputsUnchanged == [][args' = args]_vars

\* ------------------------------------------------------------- ThreadPool

\* What a task gives is a record: kind none for None, kind scalar with its value as
\* the one element of v, kind list with the sequence v of its values, kind exc with the
\* name of the exception the function raises.  The list a pool returns holds records of
\* kind scalar or list.
R_None == [kind |-> "none"]

\* list(result) or result_list.extend(result): the items of a list
list_items(result) == [i \in DOMAIN result.v |-> [kind |-> "scalar", v |-> <<result.v[i]>>]]

\* _handle_results when the first result that is not None is the k-th and a scalar, line
\* 88: the first one was consumed from result_iter by the loop of line 70, and the
\* comprehension takes what is left of the iterator
handle_scalar_rest(results, k) ==
    SelectSeq(SubSeq(results, k + 1, Len(results)), LAMBDA r : r.kind # "none")

\* lines 79-86: the first list, extended by the later lists and appended the later scalars
handle_list(results, k) ==
    Flatten([j \in 1..Len(results) |->
                IF j < k \/ results[j].kind = "none" THEN <<>>
                ELSE IF results[j].kind = "list" THEN list_items(results[j])
                ELSE <<results[j]>>])

\* ThreadPool._handle_results(results), the results being None, scalars and lists
_handle_results(results) ==
    LET found == {j \in DOMAIN results : results[j].kind # "none"}
    IN  IF found = {} THEN R_None
        ELSE LET k == NthSmallest(found, 1)
             IN  IF results[k].kind = "list"
                 THEN [kind |-> "list", v |-> handle_list(results, k)]
                 ELSE [kind |-> "list", v |-> handle_scalar_rest(results, k)]

\* ---------------------------------------------------------------- SpecPool

\* the number of tasks put into a pool, and of the worker threads of the executor
MaxTasks == 3
MaxWorkers == 2

\* what the functions of the tasks do
PoolOutcomes ==
    { R_None,
      [kind |-> "scalar", v |-> <<1>>],
      [kind |-> "scalar", v |-> <<2>>],
      [kind |-> "list", v |-> <<3, 4>>],
      [kind |-> "exc", v |-> <<>>, name |-> "E1"],
      [kind |-> "exc", v |-> <<>>, name |-> "E2"] }

\* a worker thread of the executor: where it is in _worker and the work item it holds
IdleWorker == [pc |-> "get", item |-> 0]

\* The state of a pool is in locals: tasks, the list self.tasks of futures (a future is
\* the number of its submission); state, the state of each future; work_queue, the
\* queue of the executor, 0 being the None that wakes a worker; shutdown, the flag
\* _shutdown; workers; completed, the futures in the order they finished; snapshot, the
\* futures as_completed found finished when it started; yielded, those it has given;
\* started, the futures whose function a worker has begun; draining, whether the main
\* thread is inside the loop of shutdown; exception, the one line 110 found.
InitPool ==
    /\ fn = "ThreadPool"
    /\ args \in {[funcs |-> f, max_workers |-> w] :
                    f \in SeqsUpTo(PoolOutcomes, MaxTasks), w \in 1..MaxWorkers}
    /\ pc = "put"
    /\ locals = [tasks |-> <<>>, state |-> <<>>, work_queue |-> <<>>, shutdown |-> FALSE,
                 workers |-> [w \in 1..args.max_workers |-> IdleWorker],
                 completed |-> <<>>, snapshot |-> {}, yielded |-> {}, started |-> {},
                 draining |-> FALSE, exception |-> R_None]
    /\ ret = <<>>

\* ThreadPool.put, line 99, before any shutdown: executor.submit makes the future,
\* queues its work item, and the future is appended to self.tasks
PoolPut ==
    /\ fn = "ThreadPool" /\ pc = "put"
    /\ Len(locals.tasks) < Len(args.funcs)
    /\ LET f == Len(locals.tasks) + 1
       IN  locals' = [locals EXCEPT !.tasks = Append(@, f),
                                    !.state = Append(@, "PENDING"),
                                    !.work_queue = Append(@, f)]
    /\ UNCHANGED <<fn, args, pc, ret>>

\* line 109, the start of as_completed(self.tasks): the futures finished by now are set
\* apart, and a waiter collects the others as they finish
PoolWait ==
    /\ fn = "ThreadPool" /\ pc = "put"
    /\ Len(locals.tasks) = Len(args.funcs)
    /\ locals' = [locals EXCEPT !.snapshot =
                     {f \in DOMAIN locals.state : locals.state[f] = "FINISHED"}]
    /\ pc' = "l109"
    /\ UNCHANGED <<fn, args, ret>>

\* the futures as_completed can give next: any of the set of those finished at its start
\* (the order of a set of futures is not the order of their completion), and after
\* them the others in the order they finished
as_completed_next ==
    IF locals.snapshot \ locals.yielded # {}
    THEN locals.snapshot \ locals.yielded
    ELSE LET later == SelectSeq(locals.completed, LAMBDA f : f \notin locals.yielded)
         IN  IF later = <<>> THEN {} ELSE {later[1]}

\* lines 109-110, one turn of the loop: the next completed future without exception
PoolNextResult ==
    /\ fn = "ThreadPool" /\ pc = "l109"
    /\ \E f \in as_completed_next :
          /\ args.funcs[f].kind # "exc"
          /\ locals' = [locals EXCEPT !.yielded = @ \cup {f}]
    /\ UNCHANGED <<fn, args, pc, ret>>

\* lines 109-111: the next completed future holds an exception
PoolNextException ==
    /\ fn = "ThreadPool" /\ pc = "l109"
    /\ \E f \in as_completed_next :
          /\ args.funcs[f].kind = "exc"
          /\ locals' = [locals EXCEPT !.yielded = @ \cup {f}, !.exception = args.funcs[f]]
    /\ pc' = "l111"
    /\ UNCHANGED <<fn, args, ret>>

\* ThreadPoolExecutor.shutdown, lines 23-24, called at line 111 or line 119
ShutdownBegin ==
    /\ fn = "ThreadPool" /\ pc \in {"l111", "l119"}
    /\ ~locals.draining
    /\ locals' = [locals EXCEPT !.shutdown = TRUE, !.draining = TRUE]
    /\ UNCHANGED <<fn, args, pc, ret>>

\* lines 27-33, one turn of the loop: a work item is taken from the queue and its future
\* cancelled, the None of an earlier shutdown being skipped
ShutdownDrain ==
    /\ fn = "ThreadPool" /\ pc \in {"l111", "l119"}
    /\ locals.draining
    /\ locals.work_queue # <<>>
    /\ LET work_item == Head(locals.work_queue)
       IN  locals' = [locals EXCEPT
                         !.work_queue = Tail(@),
                         !.state = [f \in DOMAIN @ |->
                                       IF f = work_item /\ @[f] = "PENDING"
                                       THEN "CANCELLED" ELSE @[f]]]
    /\ UNCHANGED <<fn, args, pc, ret>>

\* lines 30-36 and, wait being False, the return: the queue is empty, None is put into it;
\* after line 111 the exception is raised into the handler of line 117, after line 119
\* it is raised to the caller
ShutdownEnd ==
    /\ fn = "ThreadPool" /\ pc \in {"l111", "l119"}
    /\ locals.draining
    /\ locals.work_queue = <<>>
    /\ locals' = [locals EXCEPT !.work_queue = <<0>>, !.draining = FALSE]
    /\ IF pc = "l111"
       THEN pc' = "l119" /\ UNCHANGED ret
       ELSE pc' = "raised" /\ ret' = [exc |-> locals.exception.name]
    /\ UNCHANGED <<fn, args>>

\* lines 114-116: every future has been given without exception
PoolReturn ==
    /\ fn = "ThreadPool" /\ pc = "l109"
    /\ locals.yielded = DOMAIN locals.state
    /\ ret' = _handle_results([k \in DOMAIN locals.tasks |-> args.funcs[locals.tasks[k]]])
    /\ locals' = [locals EXCEPT !.tasks = <<>>]
    /\ pc' = "done"
    /\ UNCHANGED <<fn, args>>

\* ThreadPool.put after wait_completion raised: submit finds _shutdown set and raises
\* RuntimeError before anything is queued or appended
PoolPutAfterShutdown ==
    /\ fn = "ThreadPool" /\ pc = "raised"
    /\ locals.shutdown
    /\ ret' = [exc |-> "RuntimeError"]
    /\ pc' = "rejected"
    /\ UNCHANGED <<fn, args, locals>>

\* _worker: a thread takes the head of the queue; on None it puts None back for the
\* other threads and ends
WorkerGet ==
    /\ fn = "ThreadPool"
    /\ \E w \in DOMAIN locals.workers :
          /\ locals.workers[w].pc = "get"
          /\ locals.work_queue # <<>>
          /\ LET work_item == Head(locals.work_queue)
             IN  IF work_item = 0
                 THEN locals' = [locals EXCEPT !.workers[w].pc = "exited"]
                 ELSE locals' = [locals EXCEPT !.work_queue = Tail(@),
                                               !.workers[w] = [pc |-> "run", item |-> work_item]]
    /\ UNCHANGED <<fn, args, pc, ret>>

\* _WorkItem.run: set_running_or_notify_cancel, a cancelled future is not run
WorkerStart ==
    /\ fn = "ThreadPool"
    /\ \E w \in DOMAIN locals.workers :
          /\ locals.workers[w].pc = "run"
          /\ LET f == locals.workers[w].item
             IN  IF locals.state[f] = "CANCELLED"
                 THEN locals' = [locals EXCEPT !.state[f] = "CANCELLED_AND_NOTIFIED",
                                               !.workers[w] = IdleWorker]
                 ELSE locals' = [locals EXCEPT !.state[f] = "RUNNING",
                                               !.started = @ \cup {f},
                                               !.workers[w].pc = "call"]
    /\ UNCHANGED <<fn, args, pc, ret>>

\* _WorkItem.run: the function returns or raises, the future is finished
WorkerFinish ==
    /\ fn = "ThreadPool"
    /\ \E w \in DOMAIN locals.workers :
          /\ locals.workers[w].pc = "call"
          /\ LET f == locals.workers[w].item
             IN  locals' = [locals EXCEPT !.state[f] = "FINISHED",
                                          !.completed = Append(@, f),
                                          !.workers[w] = IdleWorker]
    /\ UNCHANGED <<fn, args, pc, ret>>

NextPool ==
    \/ PoolPut \/ PoolWait \/ PoolNextResult \/ PoolNextException
    \/ ShutdownBegin \/ ShutdownDrain \/ ShutdownEnd
    \/ PoolReturn \/ PoolPutAfterShutdown
    \/ WorkerGet \/ WorkerStart \/ WorkerFinish

SpecPool == InitPool /\ [][NextPool]_vars

PoolDone == fn = "ThreadPool" /\ pc = "done"

\* the results of the tasks are None and, for the others, all scalars or all lists
PoolSameKind ==
    Cardinality({args.funcs[j].kind : j \in DOMAIN args.funcs} \ {"none"}) <= 1

\* C21: when every task put into the pool finishes without an exception,
\* wait_completion returns every result that is not None exactly once, in the order of
\* submission, for scalar results as for list results; it returns None only when every
\* result is None; and the task list is emptied.
PoolReturnsEveryResult ==
    (PoolDone /\ PoolSameKind) =>
        /\ ret = R_None <=> \A j \in DOMAIN args.funcs : args.funcs[j].kind = "none"
        /\ ret # R_None =>
              ret.v = Flatten([j \in DOMAIN args.funcs |->
                                  IF args.funcs[j].kind = "none" THEN <<>>
                                  ELSE IF args.funcs[j].kind = "list"
                                       THEN list_items(args.funcs[j])
                                       ELSE <<args.funcs[j]>>])
        /\ locals.tasks = <<>>

PoolRaised == fn = "ThreadPool" /\ pc \in {"raised", "rejected"}

\* the futures that finished with an exception, in the order they finished
PoolFailed == SelectSeq(locals.completed, LAMBDA f : args.funcs[f].kind = "exc")

\* C22: when a task raises, wait_completion raises the exception of the first failed
\* task to complete, after a shutdown that cancels the futures: under every
\* interleaving each work item is started by a worker or its future is cancelled and
\* never run, no started future is cancelled, a later put is refused, and the task list
\* is what it was.
PoolRaisesFirstFailure ==
    PoolRaised =>
        /\ locals.exception.name = args.funcs[PoolFailed[1]].name
        /\ locals.shutdown
        /\ \A f \in DOMAIN locals.state :
              \/ f \in locals.started
              \/ \E w \in DOMAIN locals.workers :
                    locals.workers[w].pc = "run" /\ locals.workers[w].item = f
              \/ locals.state[f] = "CANCELLED" /\ f \notin locals.started
        /\ \A f \in locals.started : locals.state[f] \in {"RUNNING", "FINISHED"}
        /\ pc = "rejected" => ret = [exc |-> "RuntimeError"]
        /\ locals.tasks = [f \in DOMAIN args.funcs |-> f]

\* ---------------------------------------------------------------- service.py

\* The service is the script of service.py from line 36 on; pc is the line it is at.
\* locals holds abort, the flag of Kodi that g.wait_for_abort and
\* monitor.abortRequested read (once set it stays set); seen, whether one of them has
\* returned True; order, the actions issued by executebuiltin in the current turn of the
\* loop; iteration, the turns begun, counted up to MaxIterations; minutes, the
\* randint(13, 17) of line 77; deinit, the calls of g.deinit(); error, whether an
\* exception is on its way out.

\* the turns of the main loop that are counted
MaxIterations == 3

\* the RunPlugin actions of the main loop, in the order of lines 62-74
LoopActions ==
    <<"runMaintenance", "syncTraktActivities", "cleanOrphanedMetadata", "updateLocalTimezone">>

InitService ==
    /\ fn = "service"
    /\ args = <<>>
    /\ pc = "l38"
    /\ locals = [abort |-> FALSE, seen |-> FALSE, order |-> <<>>, iteration |-> 0,
                 minutes |-> 0, deinit |-> 0, error |-> FALSE]
    /\ ret = <<>>

\* Kodi asks the addon to stop
AbortRequested ==
    /\ fn = "service" /\ pc # "exit"
    /\ ~locals.abort
    /\ locals' = [locals EXCEPT !.abort = TRUE]
    /\ UNCHANGED <<fn, args, pc, ret>>

\* g.wait_for_abort(timeout) or monitor.abortRequested(): the value returned, and the
\* locals after the call
abort_check == locals.abort

AfterCheck == [locals EXCEPT !.seen = @ \/ abort_check]

\* lines 38-54: the start of the service; do_update_news, validate_timezone_detected or
\* g.clear_kodi_bookmarks may raise, and the finally of line 80 is next then
ServiceStart ==
    /\ fn = "service" /\ pc = "l38"
    /\ \/ pc' = "l57" /\ UNCHANGED locals
       \/ pc' = "l82" /\ locals' = [locals EXCEPT !.error = TRUE]
    /\ UNCHANGED <<fn, args, ret>>

\* line 57: g.wait_for_abort(30), the value is not used
ServiceWidgetWait ==
    /\ fn = "service" /\ pc = "l57"
    /\ locals' = AfterCheck
    /\ pc' = "l60"
    /\ UNCHANGED <<fn, args, ret>>

\* line 60: while not monitor.abortRequested()
ServiceLoopHead ==
    /\ fn = "service" /\ pc = "l60"
    /\ IF abort_check
       THEN pc' = "l82" /\ locals' = AfterCheck
       ELSE /\ pc' = "l62"
            /\ locals' = [locals EXCEPT !.order = <<>>,
                                        !.iteration = IF @ < MaxIterations THEN @ + 1 ELSE @]
    /\ UNCHANGED <<fn, args, ret>>

\* line 62: runMaintenance
ServiceRunMaintenance ==
    /\ fn = "service" /\ pc = "l62"
    /\ locals' = [locals EXCEPT !.order = Append(@, LoopActions[1])]
    /\ pc' = "l65"
    /\ UNCHANGED <<fn, args, ret>>

\* lines 65, 69 and 73 without the test of the value: the mutant of ServiceWait that
\* issues the next action whatever g.wait_for_abort returns
ServiceWaitIgnored ==
    /\ fn = "service" /\ pc \in {"l65", "l69", "l73"}
    /\ locals' = AfterCheck
    /\ pc' = (IF pc = "l65" THEN "l66" ELSE IF pc = "l69" THEN "l70" ELSE "l74")
    /\ UNCHANGED <<fn, args, ret>>

\* lines 65, 69 and 73: if not g.wait_for_abort(15)
ServiceWait ==
    /\ fn = "service" /\ pc \in {"l65", "l69", "l73"}
    /\ locals' = AfterCheck
    /\ pc' = IF abort_check
             THEN (IF pc = "l65" THEN "l69" ELSE IF pc = "l69" THEN "l73" ELSE "l77")
             ELSE (IF pc = "l65" THEN "l66" ELSE IF pc = "l69" THEN "l70" ELSE "l74")
    /\ UNCHANGED <<fn, args, ret>>

\* line 66: syncTraktActivities
ServiceSyncTrakt ==
    /\ fn = "service" /\ pc = "l66"
    /\ locals' = [locals EXCEPT !.order = Append(@, LoopActions[2])]
    /\ pc' = "l69"
    /\ UNCHANGED <<fn, args, ret>>

\* line 70: cleanOrphanedMetadata
ServiceCleanOrphaned ==
    /\ fn = "service" /\ pc = "l70"
    /\ locals' = [locals EXCEPT !.order = Append(@, LoopActions[3])]
    /\ pc' = "l73"
    /\ UNCHANGED <<fn, args, ret>>

\* line 74: updateLocalTimezone
ServiceUpdateTimezone ==
    /\ fn = "service" /\ pc = "l74"
    /\ locals' = [locals EXCEPT !.order = Append(@, LoopActions[4])]
    /\ pc' = "l77"
    /\ UNCHANGED <<fn, args, ret>>

\* line 77, the argument: 60 * randint(13, 17)
ServiceRandint ==
    /\ fn = "service" /\ pc = "l77"
    /\ \E n \in 13..17 : locals' = [locals EXCEPT !.minutes = n]
    /\ pc' = "l77w"
    /\ UNCHANGED <<fn, args, ret>>

\* lines 77-78: if g.wait_for_abort(...): break
ServiceSleep ==
    /\ fn = "service" /\ pc = "l77w"
    /\ locals' = [AfterCheck EXCEPT !.minutes = 0]
    /\ pc' = IF abort_check THEN "l82" ELSE "l60"
    /\ UNCHANGED <<fn, args, ret>>

\* lines 80-83: del monitor, g.deinit(), and the end of the script
ServiceFinally ==
    /\ fn = "service" /\ pc = "l82"
    /\ locals' = [locals EXCEPT !.deinit = @ + 1]
    /\ pc' = "exit"
    /\ UNCHANGED <<fn, args, ret>>

\* the steps of the script
ServiceStep ==
    \/ ServiceStart \/ ServiceWidgetWait \/ ServiceLoopHead \/ ServiceRunMaintenance
    \/ ServiceWait \/ ServiceSyncTrakt \/ ServiceCleanOrphaned \/ ServiceUpdateTimezone
    \/ ServiceRandint \/ ServiceSleep \/ ServiceFinally

NextService == AbortRequested \/ ServiceStep

SpecService == InitService /\ [][NextService]_vars

\* the script is not stopped from outside: each call of it returns and the next
\* statement runs
SpecServiceLive == SpecService /\ WF_vars(ServiceStep)

\* C23: once a call of g.wait_for_abort or monitor.abortRequested has returned True, no
\* further action of the loop is issued, the loop ends and g.deinit() is called in the
\* end; and the actions of one turn of the loop are issued in the order runMaintenance,
\* syncTraktActivities, cleanOrphanedMetadata, updateLocalTimezone.
ServiceStopsOnAbort ==
    /\ [][locals.seen => locals'.order = locals.order]_vars
    /\ [](\E n \in 0..Len(LoopActions) : locals.order = SubSeq(LoopActions, 1, n))
    /\ (locals.seen ~> (pc = "exit" /\ locals.deinit = 1))

\* the abort came while the loop waited after runMaintenance, and the script has ended
ServiceStopsOnAbortWitness ==
    /\ fn = "service" /\ pc = "exit"
    /\ locals.seen
    /\ locals.order = <<"runMaintenance">>
    /\ locals.deinit = 1

\* ---------------------------------------------------------------- seren.py

\* ONWAKE_NETWORK_UP_DELAY of serenMonitor, a module that is not among the sources: the
\* model takes a small value for it
ONWAKE_NETWORK_UP_DELAY == 2

\* A call of seren_recode_endpoint; pc is the line it is at, in _sleeping_retry_handler
\* (lines 12-28) or in the endpoint (lines 38-54).  args holds PLATFORM and raises, the
\* call that raises an exception in this run (none, init_globals,
\* get_bool_runtime_setting or dispatch).  locals holds abort, the flag of Kodi read by
\* g.wait_for_abort and g.abort_requested (once set it stays set); setting, the runtime
\* setting system.sleeping, which Kodi changes at any time; sleeping and attempts, the
\* variables of the handler; waits, the calls of g.wait_for_abort(1); handler, what the
\* handler returned; woken, whether the setting was False when it returned; aborted,
\* what g.abort_requested() of line 41 returned; calls, the calls made on g and the
\* router, in their order; error, the exception on its way out.
InitEndpoint ==
    /\ fn = "seren_recode_endpoint"
    /\ args \in {[PLATFORM |-> p, raises |-> r] :
                    p \in {"android", "linux"},
                    r \in {"none", "init_globals", "get_bool_runtime_setting", "dispatch"}}
    /\ pc = "l38"
    /\ \E s \in BOOLEAN :
          locals = [abort |-> FALSE, setting |-> s, sleeping |-> FALSE, attempts |-> 0,
                    waits |-> 0, handler |-> "unset", woken |-> FALSE, aborted |-> "unset",
                    calls |-> <<>>, error |-> "none"]
    /\ ret = <<>>

EndpointRunning == fn = "seren_recode_endpoint" /\ pc # "exit"

\* Kodi asks the addon to stop
EndpointAbort ==
    /\ EndpointRunning
    /\ ~locals.abort
    /\ locals' = [locals EXCEPT !.abort = TRUE]
    /\ UNCHANGED <<fn, args, pc, ret>>

\* the system goes to sleep or wakes up: the setting system.sleeping changes
EndpointSleepChange ==
    /\ EndpointRunning
    /\ locals' = [locals EXCEPT !.setting = ~@]
    /\ UNCHANGED <<fn, args, pc, ret>>

\* line 38: g.init_globals(sys.argv)
EndpointInitGlobals ==
    /\ fn = "seren_recode_endpoint" /\ pc = "l38"
    /\ IF args.raises = "init_globals"
       THEN /\ locals' = [locals EXCEPT !.calls = Append(@, "init_globals"),
                                        !.error = "init_globals"]
            /\ pc' = "l48"
       ELSE /\ locals' = [locals EXCEPT !.calls = Append(@, "init_globals")]
            /\ pc' = "l12"
    /\ UNCHANGED <<fn, args, ret>>

\* lines 12-15: sleeping = False; on android attempts = 0 and the loop, else the return
HandlerEnter ==
    /\ fn = "seren_recode_endpoint" /\ pc = "l12"
    /\ locals' = [locals EXCEPT !.sleeping = FALSE, !.attempts = 0]
    /\ pc' = IF args.PLATFORM = "android" THEN "l17" ELSE "l28"
    /\ UNCHANGED <<fn, args, ret>>

\* lines 17-18: attempts <= ONWAKE_NETWORK_UP_DELAY, and only then the setting is read
\* into sleeping; the read may raise
HandlerReadSetting ==
    /\ fn = "seren_recode_endpoint" /\ pc = "l17"
    /\ IF locals.attempts > ONWAKE_NETWORK_UP_DELAY
       THEN pc' = "l22" /\ UNCHANGED locals
       ELSE IF args.raises = "get_bool_runtime_setting"
       THEN pc' = "l48" /\ locals' = [locals EXCEPT !.error = "get_bool_runtime_setting"]
       ELSE /\ locals' = [locals EXCEPT !.sleeping = locals.setting]
            /\ pc' = IF locals.setting THEN "l19" ELSE "l22"
    /\ UNCHANGED <<fn, args, ret>>

\* lines 19-21: not g.wait_for_abort(1), and attempts += 1 when the loop goes on
HandlerWait ==
    /\ fn = "seren_recode_endpoint" /\ pc = "l19"
    /\ IF locals.abort
       THEN /\ locals' = [locals EXCEPT !.waits = @ + 1]
            /\ pc' = "l22"
       ELSE /\ locals' = [locals EXCEPT !.waits = @ + 1, !.attempts = @ + 1]
            /\ pc' = "l17"
    /\ UNCHANGED <<fn, args, ret>>

\* lines 22-26: the message of the log, which changes nothing
HandlerLog ==
    /\ fn = "seren_recode_endpoint" /\ pc = "l22"
    /\ pc' = "l28"
    /\ UNCHANGED <<fn, args, locals, ret>>

\* line 28: return not sleeping, into the condition of line 41
HandlerReturn ==
    /\ fn = "seren_recode_endpoint" /\ pc = "l28"
    /\ locals' = [locals EXCEPT !.handler = IF locals.sleeping THEN "False" ELSE "True",
                                !.woken = ~locals.setting]
    /\ pc' = IF locals.sleeping THEN "l54" ELSE "l41"
    /\ UNCHANGED <<fn, args, ret>>

\* line 41 without its second test, the mutant of EndpointAbortCheck: the request is
\* dispatched whatever g.abort_requested() returns
EndpointAbortCheckIgnored ==
    /\ fn = "seren_recode_endpoint" /\ pc = "l41"
    /\ locals' = [locals EXCEPT !.aborted = IF locals.abort THEN "True" ELSE "False"]
    /\ pc' = "l44"
    /\ UNCHANGED <<fn, args, ret>>

\* line 41, after the handler returned True: and not g.abort_requested()
EndpointAbortCheck ==
    /\ fn = "seren_recode_endpoint" /\ pc = "l41"
    /\ locals' = [locals EXCEPT !.aborted = IF locals.abort THEN "True" ELSE "False"]
    /\ pc' = IF locals.abort THEN "l54" ELSE "l44"
    /\ UNCHANGED <<fn, args, ret>>

\* lines 42-44: router.dispatch(g.REQUEST_PARAMS), which may raise
EndpointDispatch ==
    /\ fn = "seren_recode_endpoint" /\ pc = "l44"
    /\ IF args.raises = "dispatch"
       THEN /\ locals' = [locals EXCEPT !.calls = Append(@, "dispatch"), !.error = "dispatch"]
            /\ pc' = "l48"
       ELSE /\ locals' = [locals EXCEPT !.calls = Append(@, "dispatch")]
            /\ pc' = "l54"
    /\ UNCHANGED <<fn, args, ret>>

\* lines 46-50 without line 49, the mutant of EndpointExcept
EndpointExceptNoCancel ==
    /\ fn = "seren_recode_endpoint" /\ pc = "l48"
    /\ pc' = "l54"
    /\ UNCHANGED <<fn, args, locals, ret>>

\* lines 46-50: the exception is logged, g.cancel_directory() is called, and the
\* exception is raised again, through the finally
EndpointExcept ==
    /\ fn = "seren_recode_endpoint" /\ pc = "l48"
    /\ locals' = [locals EXCEPT !.calls = Append(@, "cancel_directory")]
    /\ pc' = "l54"
    /\ UNCHANGED <<fn, args, ret>>

\* lines 52-54: g.deinit(), then the return of None or the exception to the caller
EndpointFinally ==
    /\ fn = "seren_recode_endpoint" /\ pc = "l54"
    /\ locals' = [locals EXCEPT !.calls = Append(@, "deinit")]
    /\ ret' = IF locals.error = "none" THEN [val |-> None] ELSE [exc |-> locals.error]
    /\ pc' = "exit"
    /\ UNCHANGED <<fn, args>>

NextEndpoint ==
    \/ EndpointAbort \/ EndpointSleepChange
    \/ EndpointInitGlobals \/ HandlerEnter \/ HandlerReadSetting \/ HandlerWait
    \/ HandlerLog \/ HandlerReturn
    \/ EndpointAbortCheck \/ EndpointDispatch \/ EndpointExcept \/ EndpointFinally

SpecEndpoint == InitEndpoint /\ [][NextEndpoint]_vars

EndpointDone == fn = "seren_recode_endpoint" /\ pc = "exit"

\* how many times the call c was made
CallCount(c) == Cardinality({i \in DOMAIN locals.calls : locals.calls[i] = c})

\* C24: seren_recode_endpoint calls router.dispatch at most once, and only after
\* _sleeping_retry_handler returned True and g.abort_requested() returned False; when
\* the handler reported the system sleeping, or the abort was requested by the time of
\* the test of line 41, the request is never dispatched.
EndpointDispatchGuarded ==
    fn = "seren_recode_endpoint" =>
        /\ CallCount("dispatch") <= 1
        /\ CallCount("dispatch") = 1 => (locals.handler = "True" /\ locals.aborted = "False")
        /\ (locals.handler = "False" \/ locals.aborted = "True") => CallCount("dispatch") = 0
        /\ (pc \in {"l44", "l48", "l54", "exit"} /\ locals.aborted = "unset")
              => CallCount("dispatch") = 0

\* the abort came before the test of line 41 and the endpoint ended without dispatch
EndpointDispatchGuardedWitness ==
    /\ EndpointDone
    /\ locals.handler = "True"
    /\ locals.aborted = "True"
    /\ locals.calls = <<"init_globals", "deinit">>

\* C25: on every path through seren_recode_endpoint g.deinit() is called exactly once
\* and last; when an exception occurs g.cancel_directory() is called before g.deinit()
\* and the same exception goes to the caller.
EndpointDeinitLast ==
    EndpointDone =>
        /\ CallCount("deinit") = 1
        /\ locals.calls[Len(locals.calls)] = "deinit"
        /\ IF args.raises # "none" /\ locals.error # "none"
           THEN /\ ret = [exc |-> args.raises]
                /\ CallCount("cancel_directory") = 1
                /\ locals.calls[Len(locals.calls) - 1] = "cancel_directory"
           ELSE /\ ret = [val |-> None]
                /\ CallCount("cancel_directory") = 0

\* router.dispatch raised: cancel_directory, then deinit, and the exception comes out
EndpointDeinitLastWitness ==
    /\ EndpointDone
    /\ ret = [exc |-> "dispatch"]
    /\ locals.calls = <<"init_globals", "dispatch", "cancel_directory", "deinit">>

\* C26: _sleeping_retry_handler returns True without a wait when the platform is not
\* android; on android it makes at most ONWAKE_NETWORK_UP_DELAY + 1 waits of one second
\* and, when no abort was requested, returns True whenever system.sleeping is False at
\* the time it returns, and False only when the system is still sleeping then.
HandlerTrueWhenWoken ==
    (fn = "seren_recode_endpoint" /\ locals.handler # "unset") =>
        /\ args.PLATFORM # "android" => (locals.handler = "True" /\ locals.waits = 0)
        /\ locals.waits <= ONWAKE_NETWORK_UP_DELAY + 1
        /\ (args.PLATFORM = "android" /\ ~locals.abort /\ locals.woken)
              => locals.handler = "True"

====
